---- MODULE Spec2Model ----
(***************************************************************************)
(* Elliptic-curve point arithmetic of src/src/ecdsa/ellipticcurve.py:      *)
(* CurveFp / CurveEdTw parameters, the point codec of AbstractPoint, and   *)
(* the PointJacobi, Point (affine) and PointEdwards arithmetic, modelled   *)
(* over small prime fields.  Python integers are unbounded, so every       *)
(* expression is computed over the mathematical integers; x % p and        *)
(* x \div 2 are floor-mod and floor-division exactly as Python's % and //. *)
(***************************************************************************)
EXTENDS Integers, Sequences, FiniteSets, TLC

VARIABLES
    P,        \* first operand: a point object (its fields are mutable state)
    Q,        \* second operand: a point object
    k1,       \* first scalar argument
    k2,       \* second scalar argument
    blob,     \* byte string handed to from_bytes
    venc,     \* valid_encodings argument ({} stands for None)
    strict,   \* validate_encoding argument
    op,       \* the operation that ran last ("init" before any)
    res,      \* value returned (or error raised) by the operation
    aux,      \* second value produced by the operation (reference result)
    pc,       \* per thread: the statement it is about to execute
    loc       \* per thread: its local variables

vars == <<P, Q, k1, k2, blob, venc, strict, op, res, aux, pc, loc>>

----------------------------------------------------------------------------
(* Bounds of the model *)

\* scalars are drawn from -MaxNeg .. MaxScalar
MaxScalar == 9
MaxNeg == 2
\* Jacobian / extended Z representations are drawn from 1 .. Min(MaxZ, p-1)
MaxZ == 3

Min(a, b) == IF a < b THEN a ELSE b
Max(a, b) == IF a > b THEN a ELSE b

----------------------------------------------------------------------------
(* Curves: CurveFp(p, a, b, h) and CurveEdTw(p, a, d, h).  type "W" is a   *)
(* CurveFp, type "E" a CurveEdTw (field b holds d).  h = 0 stands for None *)

Curve(type, p, a, b, h) == [type |-> type, p |-> p, a |-> a, b |-> b, h |-> h]

NoCurve == Curve("none", 0, 0, 0, 0)

\* CurveFp.__eq__ / CurveEdTw.__eq__ ; objects of different classes (or None)
\* compare by identity, i.e. unequal, and None == None holds
CurveEq(c1, c2) ==
    IF c1.type = "none" \/ c2.type = "none" THEN c1.type = c2.type
    ELSE IF c1.type # c2.type THEN FALSE
    ELSE /\ c1.p = c2.p
         /\ (c1.a % c1.p) = (c2.a % c1.p)
         /\ (c1.b % c1.p) = (c2.b % c1.p)

\* CurveFp.contains_point
contains_point(c, x, y) ==
    LET xr == x % c.p
        yr == y % c.p
    IN ((yr * yr - ((xr * xr + c.a) * xr + c.b)) % c.p) = 0

\* CurveEdTw.contains_point
ed_contains_point(c, x, y) ==
    ((c.a * x * x + y * y - 1 - c.b * x * x * y * y) % c.p) = 0

----------------------------------------------------------------------------
(* External helpers (numbertheory / util), modelled from their contracts   *)

\* numbertheory.inverse_mod(a, m): a^-1 mod m for gcd(a, m) = 1; 0 for a
\* multiple of m (no inverse exists)
inverse_mod(a, m) ==
    IF (a % m) = 0 THEN 0
    ELSE CHOOSE i \in 1..(m - 1) : ((a % m) * i) % m = 1

\* the square roots of a modulo p
SquareRoots(a, p) == {r \in 0..(p - 1) : (r * r) % p = a % p}

RECURSIVE bit_length(_)
bit_length(n) == IF n = 0 THEN 0 ELSE 1 + bit_length(n \div 2)

\* util.orderlen: number of bytes needed to hold the order
orderlen(n) == (bit_length(n) + 7) \div 8

RECURSIVE number_to_bytes(_, _)
number_to_bytes(n, len) ==
    IF len = 0 THEN <<>>
    ELSE Append(number_to_bytes(n \div 256, len - 1), n % 256)

\* util.number_to_string: big-endian, zero padded to orderlen(order) bytes
number_to_string(n, order) == number_to_bytes(n, orderlen(order))

RECURSIVE string_to_number(_)
\* util.string_to_number: big-endian bytes to a non-negative integer
string_to_number(s) ==
    IF Len(s) = 0 THEN 0
    ELSE 256 * string_to_number(SubSeq(s, 1, Len(s) - 1)) + s[Len(s)]

----------------------------------------------------------------------------
(* Point objects.  One record shape for all classes:                       *)
(*   kind "inf"  the INFINITY sentinel Point(None, None, None)             *)
(*   kind "aff"  Point(curve, x, y, order)          (X, Y hold x, y)       *)
(*   kind "jac"  PointJacobi(curve, X, Y, Z, order, generator)             *)
(*   kind "ed"   PointEdwards(curve, X, Y, Z, T, order)                    *)
(*   kind "err"  an exception raised instead of a value (err names it)     *)
(*   kind "xy"   a coordinate pair returned by AbstractPoint.from_bytes    *)
(* order = 0 stands for None (the code only tests its truth value).        *)

Obj(kind, c, X, Y, Z, T, order, gen, pre, err) ==
    [kind |-> kind, curve |-> c, X |-> X, Y |-> Y, Z |-> Z, T |-> T,
     order |-> order, gen |-> gen, pre |-> pre, err |-> err]

INFINITY == Obj("inf", NoCurve, 0, 0, 0, 0, 0, FALSE, <<>>, "")

Raise(e) == Obj("err", NoCurve, 0, 0, 0, 0, 0, FALSE, <<>>, e)

XY(x, y) == Obj("xy", NoCurve, x, y, 0, 0, 0, FALSE, <<>>, "")

IsErr(r) == r.kind = "err"

\* PointJacobi.__init__
PointJacobi(c, x, y, z, order, generator) ==
    Obj("jac", c, x, y, z, 0, order, generator, <<>>, "")

\* PointEdwards.__init__
PointEdwards(c, x, y, z, t, order) ==
    Obj("ed", c, x, y, z, t, order, FALSE, <<>>, "")

----------------------------------------------------------------------------
(* Equality of point objects (Python's ==, with its reflected fallback)    *)

\* PointJacobi.__eq__(self, other); "NotImplemented" for foreign classes
JacobiEq(self, other) ==
    IF other.kind = "inf" THEN (self.Y = 0 \/ self.Z = 0)
    ELSE IF other.kind \notin {"aff", "jac"} THEN FALSE
    ELSE LET x1 == self.X
             y1 == self.Y
             z1 == self.Z
             x2 == other.X
             y2 == other.Y
             z2 == IF other.kind = "aff" THEN 1 ELSE other.Z
             p == self.curve.p
             zz1 == (z1 * z1) % p
             zz2 == (z2 * z2) % p
         IN IF ~CurveEq(self.curve, other.curve) THEN FALSE
            ELSE /\ ((x1 * zz2 - x2 * zz1) % p) = 0
                 /\ ((((y1 * zz2) % p) * z2 - ((y2 * zz1) % p) * z1) % p) = 0

\* Point.__eq__(self, other) for two Point instances (INFINITY included)
AffineEq(self, other) ==
    /\ CurveEq(self.curve, other.curve)
    /\ self.kind = other.kind
    /\ self.X = other.X
    /\ self.Y = other.Y

\* PointEdwards.__eq__(self, other)
EdwardsEq(self, other) ==
    IF other.kind = "inf" THEN (self.X = 0 \/ self.T = 0)
    ELSE IF other.kind # "ed" THEN FALSE
    ELSE IF ~CurveEq(self.curve, other.curve) THEN FALSE
    ELSE LET p == self.curve.p
         IN /\ ((self.X * other.Z) % p) = ((other.X * self.Z) % p)
            /\ ((self.Y * other.Z) % p) = ((other.Y * self.Z) % p)

\* a == b as Python evaluates it: a.__eq__(b), and b.__eq__(a) when the
\* first returns NotImplemented; an exception never equals anything
PointEq(a, b) ==
    IF IsErr(a) \/ IsErr(b) THEN FALSE
    ELSE IF a.kind \in {"aff", "inf"} THEN
        IF b.kind \in {"aff", "inf"} THEN AffineEq(a, b)
        ELSE IF b.kind = "jac" THEN JacobiEq(b, a)
        ELSE IF b.kind = "ed" THEN EdwardsEq(b, a)
        ELSE FALSE
    ELSE IF a.kind = "jac" THEN JacobiEq(a, b)
    ELSE IF a.kind = "ed" THEN EdwardsEq(a, b)
    ELSE FALSE

----------------------------------------------------------------------------
(* PointJacobi: coordinate formulas.  Each returns the triple <<X, Y, Z>>. *)

\* PointJacobi._double_with_z_1 (mdbl-2007-bl)
double_with_z_1(X1, Y1, p, a) ==
    LET XX == (X1 * X1) % p
        YY == (Y1 * Y1) % p
        YYYY == (YY * YY) % p
        S == (2 * ((X1 + YY) * (X1 + YY) - XX - YYYY)) % p
        M == 3 * XX + a
        T == (M * M - 2 * S) % p
        Y3 == (M * (S - T) - 8 * YYYY) % p
        Z3 == (2 * Y1) % p
    IN IF YY = 0 THEN <<0, 0, 1>> ELSE <<T, Y3, Z3>>

\* PointJacobi._double (dbl-2007-bl for Z # 1)
jdouble(X1, Y1, Z1, p, a) ==
    IF Z1 = 1 THEN double_with_z_1(X1, Y1, p, a)
    ELSE IF Y1 = 0 \/ Z1 = 0 THEN <<0, 0, 1>>
    ELSE LET XX == (X1 * X1) % p
             YY == (Y1 * Y1) % p
             YYYY == (YY * YY) % p
             ZZ == (Z1 * Z1) % p
             S == (2 * ((X1 + YY) * (X1 + YY) - XX - YYYY)) % p
             M == (3 * XX + a * ((ZZ * ZZ) % p)) % p
             T == (M * M - 2 * S) % p
             Y3 == (M * (S - T) - 8 * YYYY) % p
             Z3 == ((Y1 + Z1) * (Y1 + Z1) - YY - ZZ) % p
         IN IF YY = 0 THEN <<0, 0, 1>> ELSE <<T, Y3, Z3>>

\* PointJacobi._add_with_z_1 (mmadd-2007-bl); H and r are not reduced
add_with_z_1(X1, Y1, X2, Y2, p, a) ==
    LET H == X2 - X1
        HH == H * H
        I == (4 * HH) % p
        J == H * I
        r == 2 * (Y2 - Y1)
        V == X1 * I
        X3 == (r * r - J - 2 * V) % p
        Y3 == (r * (V - X3) - 2 * Y1 * J) % p
        Z3 == (2 * H) % p
    IN IF H = 0 /\ r = 0 THEN double_with_z_1(X1, Y1, p, a)
       ELSE <<X3, Y3, Z3>>

\* PointJacobi._add_with_z_eq (zadd-2007-m)
add_with_z_eq(X1, Y1, Z1, X2, Y2, p, a) ==
    LET A == ((X2 - X1) * (X2 - X1)) % p
        B == (X1 * A) % p
        C == X2 * A
        D == ((Y2 - Y1) * (Y2 - Y1)) % p
        X3 == (D - B - C) % p
        Y3 == ((Y2 - Y1) * (B - X3) - Y1 * (C - B)) % p
        Z3 == (Z1 * (X2 - X1)) % p
    IN IF A = 0 /\ D = 0 THEN jdouble(X1, Y1, Z1, p, a)
       ELSE <<X3, Y3, Z3>>

\* PointJacobi._add_with_z2_1 (madd-2007-bl)
add_with_z2_1(X1, Y1, Z1, X2, Y2, p, a) ==
    LET Z1Z1 == (Z1 * Z1) % p
        U2 == (X2 * Z1Z1) % p
        S2 == (((Y2 * Z1) % p) * Z1Z1) % p
        H == (U2 - X1) % p
        HH == (H * H) % p
        I == (4 * HH) % p
        J == H * I
        r == (2 * (S2 - Y1)) % p
        V == X1 * I
        X3 == (r * r - J - 2 * V) % p
        Y3 == (r * (V - X3) - 2 * Y1 * J) % p
        Z3 == ((Z1 + H) * (Z1 + H) - Z1Z1 - HH) % p
    IN IF r = 0 /\ H = 0 THEN double_with_z_1(X2, Y2, p, a)
       ELSE <<X3, Y3, Z3>>

\* PointJacobi._add_with_z_ne (add-2007-bl)
add_with_z_ne(X1, Y1, Z1, X2, Y2, Z2, p, a) ==
    LET Z1Z1 == (Z1 * Z1) % p
        Z2Z2 == (Z2 * Z2) % p
        U1 == (X1 * Z2Z2) % p
        U2 == (X2 * Z1Z1) % p
        S1 == (((Y1 * Z2) % p) * Z2Z2) % p
        S2 == (((Y2 * Z1) % p) * Z1Z1) % p
        H == U2 - U1
        I == (4 * H * H) % p
        J == (H * I) % p
        r == (2 * (S2 - S1)) % p
        V == U1 * I
        X3 == (r * r - J - 2 * V) % p
        Y3 == (r * (V - X3) - 2 * S1 * J) % p
        Z3 == (((Z1 + Z2) * (Z1 + Z2) - Z1Z1 - Z2Z2) * H) % p
    IN IF H = 0 /\ r = 0 THEN jdouble(X1, Y1, Z1, p, a)
       ELSE <<X3, Y3, Z3>>

\* PointJacobi._add: select the fastest formula
jadd(X1, Y1, Z1, X2, Y2, Z2, p, a) ==
    IF Y1 = 0 \/ Z1 = 0 THEN <<X2, Y2, Z2>>
    ELSE IF Y2 = 0 \/ Z2 = 0 THEN <<X1, Y1, Z1>>
    ELSE IF Z1 = Z2 THEN
        IF Z1 = 1 THEN add_with_z_1(X1, Y1, X2, Y2, p, a)
        ELSE add_with_z_eq(X1, Y1, Z1, X2, Y2, p, a)
    ELSE IF Z1 = 1 THEN add_with_z2_1(X2, Y2, Z2, X1, Y1, p, a)
    ELSE IF Z2 = 1 THEN add_with_z2_1(X1, Y1, Z1, X2, Y2, p, a)
    ELSE add_with_z_ne(X1, Y1, Z1, X2, Y2, Z2, p, a)

\* the point object an arithmetic method returns for the triple t
JacobiResult(self, t) ==
    IF t[2] = 0 \/ t[3] = 0 THEN INFINITY
    ELSE PointJacobi(self.curve, t[1], t[2], t[3], self.order, FALSE)

\* PointJacobi.x() / y(): affine coordinates without touching the object
jx(self) ==
    IF self.Z = 1 THEN self.X
    ELSE LET z == inverse_mod(self.Z, self.curve.p)
         IN (self.X * ((z * z) % self.curve.p)) % self.curve.p

jy(self) ==
    IF self.Z = 1 THEN self.Y
    ELSE LET z == inverse_mod(self.Z, self.curve.p)
         IN (self.Y * ((z * z * z) % self.curve.p)) % self.curve.p

\* PointEdwards.x() and y()
ex(self) ==
    IF self.Z = 1 THEN self.X
    ELSE (self.X * inverse_mod(self.Z, self.curve.p)) % self.curve.p

ey(self) ==
    IF self.Z = 1 THEN self.Y
    ELSE (self.Y * inverse_mod(self.Z, self.curve.p)) % self.curve.p

\* point.x() and point.y() of whichever class the point has
affine_x(point) ==
    IF point.kind = "jac" THEN jx(point)
    ELSE IF point.kind = "ed" THEN ex(point) ELSE point.X

affine_y(point) ==
    IF point.kind = "jac" THEN jy(point)
    ELSE IF point.kind = "ed" THEN ey(point) ELSE point.Y

\* a scaling that divides y by the square of z only
scale_SquareOnly(self) ==
    IF self.Z = 1 THEN self
    ELSE LET p == self.curve.p
             z_inv == inverse_mod(self.Z, p)
             zz_inv == (z_inv * z_inv) % p
         IN [self EXCEPT !.X = (self.X * zz_inv) % p,
                         !.Y = (self.Y * zz_inv) % p, !.Z = 1]

\* PointJacobi.scale(): the object after the call (coords replaced in place)
scale(self) ==
    IF self.Z = 1 THEN self
    ELSE LET p == self.curve.p
             z_inv == inverse_mod(self.Z, p)
             zz_inv == (z_inv * z_inv) % p
             x == (self.X * zz_inv) % p
             y == (((self.Y * zz_inv) % p) * z_inv) % p
         IN [self EXCEPT !.X = x, !.Y = y, !.Z = 1]

\* PointJacobi.double()
JacobiDouble(self) ==
    IF self.Y = 0 THEN INFINITY
    ELSE JacobiResult(self, jdouble(self.X, self.Y, self.Z,
                                    self.curve.p, self.curve.a))

\* PointJacobi.from_affine(point, generator)
from_affine(point, generator) ==
    PointJacobi(point.curve, affine_x(point), affine_y(point), 1, point.order, generator)

\* a negation that forgets to negate Y
JacobiNeg_KeepY(self) ==
    PointJacobi(self.curve, self.X, self.Y, self.Z, self.order, FALSE)

\* PointJacobi.__neg__
JacobiNeg(self) ==
    PointJacobi(self.curve, self.X, -self.Y, self.Z, self.order, FALSE)

\* the tail of PointJacobi.__add__, o being other converted to a PointJacobi
jacobi_add_converted(self, o) ==
    IF o.kind # "jac" THEN Raise("AttributeError")
    ELSE IF ~CurveEq(self.curve, o.curve) THEN Raise("ValueError")
    ELSE JacobiResult(self, jadd(self.X, self.Y, self.Z, o.X, o.Y, o.Z,
                                 self.curve.p, self.curve.a))

\* PointJacobi.__add__(self, other) for other a Point or a PointJacobi
JacobiAdd(self, other) ==
    IF JacobiEq(self, INFINITY) THEN other
    ELSE IF PointEq(other, INFINITY) THEN self
    ELSE jacobi_add_converted(self,
             IF other.kind = "aff" THEN from_affine(other, FALSE) ELSE other)

----------------------------------------------------------------------------
(* PointEdwards *)

\* PointEdwards._double (dbl-2008-hwcd); returns <<X, Y, Z, T>>
edouble(X1, Y1, Z1, T1, p, a) ==
    LET A == (X1 * X1) % p
        B == (Y1 * Y1) % p
        C == (2 * Z1 * Z1) % p
        D == (a * A) % p
        E == ((X1 + Y1) * (X1 + Y1) - A - B) % p
        G == D + B
        F == G - C
        H == D - B
    IN <<(E * F) % p, (G * H) % p, (F * G) % p, (E * H) % p>>

\* PointEdwards._add (add-2008-hwcd-2); returns <<X, Y, Z, T>>
eadd(X1, Y1, Z1, T1, X2, Y2, Z2, T2, p, a) ==
    LET A == (X1 * X2) % p
        B == (Y1 * Y2) % p
        C == (Z1 * T2) % p
        D == (T1 * Z2) % p
        E == D + C
        F == ((X1 - Y1) * (X2 + Y2) + B - A) % p
        G == B + a * A
        H == D - C
    IN IF H = 0 THEN edouble(X1, Y1, Z1, T1, p, a)
       ELSE <<(E * F) % p, (G * H) % p, (F * G) % p, (E * H) % p>>

\* the point object an Edwards method returns for the quadruple t
EdwardsResult(self, t) ==
    IF t[1] = 0 \/ t[4] = 0 THEN INFINITY
    ELSE PointEdwards(self.curve, t[1], t[2], t[3], t[4], self.order)

\* an addition without the shortcut for other == INFINITY
EdwardsAdd_NoShortcut(self, other) ==
    IF other.kind # "ed" THEN Raise("ValueError")
    ELSE IF ~CurveEq(self.curve, other.curve) THEN Raise("ValueError")
    ELSE EdwardsResult(self, eadd(self.X, self.Y, self.Z, self.T,
                                  other.X, other.Y, other.Z, other.T,
                                  self.curve.p, self.curve.a))

\* PointEdwards.__add__
EdwardsAdd(self, other) ==
    IF PointEq(other, INFINITY) THEN self
    ELSE IF other.kind # "ed" THEN Raise("ValueError")
    ELSE IF ~CurveEq(self.curve, other.curve) THEN Raise("ValueError")
    ELSE EdwardsResult(self, eadd(self.X, self.Y, self.Z, self.T,
                                  other.X, other.Y, other.Z, other.T,
                                  self.curve.p, self.curve.a))

\* PointEdwards.double
EdwardsDouble(self) ==
    IF self.X = 0 \/ self.T = 0 THEN INFINITY
    ELSE EdwardsResult(self, edouble(self.X, self.Y, self.Z, self.T,
                                     self.curve.p, self.curve.a))

----------------------------------------------------------------------------
(* AbstractPoint._naf: non-adjacent form, least significant digit first    *)

\* the plain binary digits, least significant first
RECURSIVE naf_Binary(_)
naf_Binary(mult) ==
    IF mult = 0 THEN <<>> ELSE <<mult % 2>> \o naf_Binary(mult \div 2)

RECURSIVE naf(_)
naf(mult) ==
    IF mult = 0 THEN <<>>
    ELSE IF (mult % 2) = 1 THEN
        LET nd == IF (mult % 4) >= 2 THEN (mult % 4) - 4 ELSE mult % 4
        IN <<nd>> \o naf((mult - nd) \div 2)
    ELSE <<0>> \o naf(mult \div 2)

\* the body of the loop of PointEdwards.__mul__ after the doubling d
edwards_ladder_step(self, digit, d) ==
    IF digit < 0
    THEN eadd(d[1], d[2], d[3], d[4], -self.X, self.Y, self.Z, -self.T,
              self.curve.p, self.curve.a)
    ELSE IF digit > 0
    THEN eadd(d[1], d[2], d[3], d[4], self.X, self.Y, self.Z, self.T,
              self.curve.p, self.curve.a)
    ELSE d

\* the loop of PointEdwards.__mul__ over reversed(naf): digit i down to 1
RECURSIVE edwards_ladder(_, _, _, _)
edwards_ladder(self, digits, i, acc) ==
    IF i = 0 THEN acc
    ELSE edwards_ladder(self, digits, i - 1,
             edwards_ladder_step(self, digits[i],
                 edouble(acc[1], acc[2], acc[3], acc[4],
                         self.curve.p, self.curve.a)))

\* other % (order * 2) when the order is set, as __mul__ reduces its scalar
reduced_scalar(self, other) ==
    IF self.order # 0 THEN other % (self.order * 2) ELSE other

\* PointEdwards.__mul__
EdwardsMul(self, other) ==
    IF self.X = 0 \/ self.T = 0 \/ other = 0 THEN INFINITY
    ELSE IF other = 1 THEN self
    ELSE EdwardsResult(self,
             edwards_ladder(self, naf(reduced_scalar(self, other)),
                            Len(naf(reduced_scalar(self, other))),
                            <<0, 1, 1, 0>>))

----------------------------------------------------------------------------
(* Point: affine short-Weierstrass points *)

RECURSIVE AffineMul(_, _)

\* the assertion self * order == INFINITY of Point.__init__, m being the
\* product
point_order_checked(self, m) ==
    IF IsErr(m) THEN m
    ELSE IF PointEq(m, INFINITY) THEN self
    ELSE Raise("AssertionError")

\* Point.__init__ for the object self under construction
point_init(self) ==
    IF ~contains_point(self.curve, self.X, self.Y) THEN Raise("AssertionError")
    ELSE IF self.curve.h # 1 /\ self.order # 0
    THEN point_order_checked(self, AffineMul(self, self.order))
    ELSE self

\* Point.__init__: the constructed object, or the assertion that fails
Point(c, x, y, order) ==
    point_init(Obj("aff", c, x, y, 0, 0, order, FALSE, <<>>, ""))

\* Point.__neg__
AffineNeg(self) ==
    IF self.kind = "inf" THEN Raise("AttributeError")
    ELSE Point(self.curve, self.X, self.curve.p - self.Y, 0)

\* Point.double
AffineDouble(self) ==
    IF AffineEq(self, INFINITY) THEN INFINITY
    ELSE LET p == self.curve.p
             a == self.curve.a
             l == ((3 * self.X * self.X + a) * inverse_mod(2 * self.Y, p)) % p
             x3 == (l * l - 2 * self.X) % p
             y3 == (l * (self.X - x3) - self.Y) % p
         IN Point(self.curve, x3, y3, 0)

\* Point.__add__; a non-Point other gets the call through its __radd__
AffineAdd(self, other) ==
    IF other.kind = "jac" THEN JacobiAdd(other, self)
    ELSE IF other.kind = "ed" THEN EdwardsAdd(other, self)
    ELSE IF AffineEq(other, INFINITY) THEN self
    ELSE IF AffineEq(self, INFINITY) THEN other
    ELSE IF ~CurveEq(self.curve, other.curve) THEN Raise("AssertionError")
    ELSE LET p == self.curve.p
         IN IF self.X = other.X THEN
                IF ((self.Y + other.Y) % p) = 0 THEN INFINITY
                ELSE AffineDouble(self)
            ELSE LET l == ((other.Y - self.Y)
                           * inverse_mod(other.X - self.X, p)) % p
                     x3 == (l * l - self.X - other.X) % p
                     y3 == (l * (self.X - x3) - self.Y) % p
                 IN Point(self.curve, x3, y3, 0)

RECURSIVE leftmost_bit_from(_, _)
leftmost_bit_from(result, x) ==
    IF result <= x THEN leftmost_bit_from(2 * result, x) ELSE result \div 2

\* leftmost_bit of Point.__mul__: the largest power of two not above x
leftmost_bit(x) == leftmost_bit_from(1, x)

\* bit test (v & i) != 0 for i a power of two
BitSet(v, i) == ((v \div i) % 2) = 1

\* the two conditional additions of the loop body of Point.__mul__ after the
\* doubling d; their conditions exclude each other, so at most one is made
affine_mul_step(d, i, e, e3, self, negative_self) ==
    IF IsErr(d) THEN d
    ELSE IF BitSet(e3, i) # BitSet(e, i)
    THEN AffineAdd(d, IF BitSet(e3, i) THEN self ELSE negative_self)
    ELSE d

\* the while loop of Point.__mul__ (X9.62 D.3.2); an exception raised by a
\* step ends the loop
RECURSIVE affine_mul_loop(_, _, _, _, _, _)
affine_mul_loop(result, i, e, e3, self, negative_self) ==
    IF IsErr(result) \/ ~(i > 1) THEN result
    ELSE affine_mul_loop(affine_mul_step(AffineDouble(result), i, e, e3,
                                         self, negative_self),
                         i \div 2, e, e3, self, negative_self)

\* (-self) * (-e) of Point.__mul__, n being -self
affine_mul_negated(n, e) == IF IsErr(n) THEN n ELSE AffineMul(n, -e)

\* Point.__mul__ for e > 0 once negative_self is constructed
affine_mul_run(self, e, negative_self) ==
    IF IsErr(negative_self) THEN negative_self
    ELSE affine_mul_loop(self, leftmost_bit(3 * e) \div 2, e, 3 * e,
                         self, negative_self)

\* Point.__mul__
AffineMul(self, other) ==
    IF other = 0 \/ (self.order # 0 /\ (other % self.order) = 0) THEN INFINITY
    ELSE IF AffineEq(self, INFINITY) THEN INFINITY
    ELSE IF other < 0 THEN affine_mul_negated(AffineNeg(self), other)
    ELSE affine_mul_run(self, other,
                        Point(self.curve, self.X, -self.Y, self.order))

----------------------------------------------------------------------------
(* PointJacobi: precomputation and scalar multiplication.  A method that   *)
(* mutates its object is modelled by a "call" record: ret is the value     *)
(* returned (or the exception), self / other the objects after the call.   *)

\* the while loop of _maybe_precompute; doubler.double() may return INFINITY,
\* which has no scale()
RECURSIVE precompute_loop(_, _, _, _)

\* an iteration that stores the previous entry again
precompute_store_Stale(i, order, doubler, precompute) ==
    precompute_loop(i * 2, order, doubler,
                    Append(precompute, precompute[Len(precompute)]))

\* the rest of an iteration once doubler is the scaled double
precompute_store(i, order, doubler, precompute) ==
    precompute_loop(i * 2, order, doubler,
                    Append(precompute, <<jx(doubler), jy(doubler)>>))

\* doubler = doubler.double().scale() for the double d
precompute_doubled(i, order, d, precompute) ==
    IF d.kind # "jac" THEN [err |-> "AttributeError", pre |-> <<>>]
    ELSE precompute_store(i, order, scale(d), precompute)

precompute_loop(i, order, doubler, precompute) ==
    IF ~(i < order) THEN [err |-> "", pre |-> precompute]
    ELSE precompute_doubled(i, order, JacobiDouble(doubler), precompute)

\* PointJacobi._maybe_precompute: the object after the call, or the exception
\* self.__precompute = precompute, r being what the loop produced
precompute_publish(self, r) ==
    IF r.err # "" THEN Raise(r.err) ELSE [self EXCEPT !.pre = r.pre]

\* the table built from the first doubler: its own pair, then the loop
precompute_table(order, doubler) ==
    precompute_loop(1, order, doubler, << <<jx(doubler), jy(doubler)>> >>)

\* _maybe_precompute without the test of the generator flag
maybe_precompute_AnyPoint(self) ==
    IF self.pre # <<>> THEN self
    ELSE IF self.order = 0 THEN Raise("AssertionError")
    ELSE precompute_publish(self,
             precompute_table(self.order * 4,
                 PointJacobi(self.curve, self.X, self.Y, self.Z,
                             self.order * 2, FALSE)))

maybe_precompute(self) ==
    IF ~self.gen \/ self.pre # <<>> THEN self
    ELSE IF self.order = 0 THEN Raise("AssertionError")
    ELSE precompute_publish(self,
             precompute_table(self.order * 4,
                 PointJacobi(self.curve, self.X, self.Y, self.Z,
                             self.order * 2, FALSE)))

\* the for loop of _mul_precompute over the table entries j .. Len
RECURSIVE mul_precompute_loop(_, _, _, _, _, _)
mul_precompute_loop(pre, j, other, acc, p, a) ==
    IF j > Len(pre) THEN acc
    ELSE IF (other % 2) = 1 THEN
        IF (other % 4) >= 2
        THEN mul_precompute_loop(pre, j + 1, (other + 1) \div 2,
                 jadd(acc[1], acc[2], acc[3], pre[j][1], -pre[j][2], 1, p, a),
                 p, a)
        ELSE mul_precompute_loop(pre, j + 1, (other - 1) \div 2,
                 jadd(acc[1], acc[2], acc[3], pre[j][1], pre[j][2], 1, p, a),
                 p, a)
    ELSE mul_precompute_loop(pre, j + 1, other \div 2, acc, p, a)

\* the values `other' takes in the loop of _mul_precompute, one per table
\* entry
RECURSIVE mul_precompute_scalars(_, _, _)
mul_precompute_scalars(pre, j, other) ==
    IF j > Len(pre) THEN <<>>
    ELSE IF (other % 2) = 1 THEN
        IF (other % 4) >= 2
        THEN <<(other + 1) \div 2>>
             \o mul_precompute_scalars(pre, j + 1, (other + 1) \div 2)
        ELSE <<(other - 1) \div 2>>
             \o mul_precompute_scalars(pre, j + 1, (other - 1) \div 2)
    ELSE <<other \div 2>> \o mul_precompute_scalars(pre, j + 1, other \div 2)

\* PointJacobi._mul_precompute
mul_precompute(self, other) ==
    JacobiResult(self, mul_precompute_loop(self.pre, 1, other, <<0, 0, 1>>,
                                           self.curve.p, self.curve.a))

\* the body of the for loop of __mul__ after the doubling d
mul_ladder_step(digit, d, X2, Y2, p, a) ==
    IF digit < 0 THEN jadd(d[1], d[2], d[3], X2, -Y2, 1, p, a)
    ELSE IF digit > 0 THEN jadd(d[1], d[2], d[3], X2, Y2, 1, p, a)
    ELSE d

\* the for loop of __mul__ over reversed(naf): digit i down to 1
RECURSIVE mul_ladder(_, _, _, _, _, _, _)
mul_ladder(digits, i, acc, X2, Y2, p, a) ==
    IF i = 0 THEN acc
    ELSE mul_ladder(digits, i - 1,
                    mul_ladder_step(digits[i],
                                    jdouble(acc[1], acc[2], acc[3], p, a),
                                    X2, Y2, p, a),
                    X2, Y2, p, a)

\* the NAF ladder of __mul__ on the scaled object s2
mul_naf(s2, digits) ==
    [ret |-> JacobiResult(s2, mul_ladder(digits, Len(digits), <<0, 0, 1>>,
                                         s2.X, s2.Y, s2.curve.p, s2.curve.a)),
     self |-> s2]

\* __mul__ after self._maybe_precompute() left the object as s1
mul_precomputed(self, s1, k) ==
    IF IsErr(s1) THEN [ret |-> s1, self |-> self]
    ELSE IF s1.pre # <<>> THEN [ret |-> mul_precompute(s1, k), self |-> s1]
    ELSE mul_naf(scale(s1), naf(k))

\* PointJacobi.__mul__ as a call
JacobiMulCall(self, other) ==
    IF self.Y = 0 \/ other = 0 THEN [ret |-> INFINITY, self |-> self]
    ELSE IF other = 1 THEN [ret |-> self, self |-> self]
    ELSE mul_precomputed(self, maybe_precompute(self),
                         reduced_scalar(self, other))

\* the value of self * other
JacobiMul(self, other) == JacobiMulCall(self, other).ret

\* x * k for a point object of any class
Mul(x, k) ==
    IF IsErr(x) THEN x
    ELSE IF x.kind = "jac" THEN JacobiMul(x, k)
    ELSE IF x.kind = "ed" THEN EdwardsMul(x, k)
    ELSE AffineMul(x, k)

\* x + y for point objects of any class
Add(x, y) ==
    IF IsErr(x) THEN x
    ELSE IF IsErr(y) THEN y
    ELSE IF x.kind = "jac" THEN JacobiAdd(x, y)
    ELSE IF x.kind = "ed" THEN EdwardsAdd(x, y)
    ELSE AffineAdd(x, y)

\* x.double() for a point object of any class
Double(x) ==
    IF x.kind = "jac" THEN JacobiDouble(x)
    ELSE IF x.kind = "ed" THEN EdwardsDouble(x)
    ELSE AffineDouble(x)

\* -x for a short-Weierstrass point object
\* PointEdwards defines no unary minus
Neg(x) ==
    IF x.kind = "jac" THEN JacobiNeg(x)
    ELSE IF x.kind = "ed" THEN Raise("TypeError")
    ELSE AffineNeg(x)

----------------------------------------------------------------------------
(* PointJacobi.mul_add *)

\* left-pad the reversed NAF digit lists to the same length: digit i of the
\* least-significant-first list d, 0 beyond its end
Digit(d, i) == IF i <= Len(d) THEN d[i] ELSE 0

\* the point the loop body of mul_add adds for the digits A, B; <<0, 0, 0>>
\* when both are zero and nothing is added
mul_add_term(A, B, A1, B1, comb) ==
    IF A = 0 THEN
        IF B = 0 THEN <<0, 0, 0>>
        ELSE IF B < 0 THEN <<B1[1], -B1[2], B1[3]>>
        ELSE B1
    ELSE IF A < 0 THEN
        IF B = 0 THEN <<A1[1], -A1[2], A1[3]>>
        ELSE IF B < 0 THEN comb.mAmB
        ELSE comb.mApB
    ELSE
        IF B = 0 THEN A1
        ELSE IF B < 0 THEN comb.pAmB
        ELSE comb.pApB

\* the loop body of mul_add after the doubling d
mul_add_step(d, A, B, t, p, a) ==
    IF A = 0 /\ B = 0 THEN d
    ELSE jadd(d[1], d[2], d[3], t[1], t[2], t[3], p, a)

\* the for loop of mul_add over zip(self_naf, other_naf): position i down to 1
RECURSIVE mul_add_loop(_, _, _, _, _, _, _, _)
mul_add_loop(na, nb, i, acc, A1, B1, comb, c) ==
    IF i = 0 THEN acc
    ELSE mul_add_loop(na, nb, i - 1,
             mul_add_step(jdouble(acc[1], acc[2], acc[3], c.p, c.a),
                          Digit(na, i), Digit(nb, i),
                          mul_add_term(Digit(na, i), Digit(nb, i),
                                       A1, B1, comb),
                          c.p, c.a),
             A1, B1, comb, c)

\* what the caller's object `other' is after the call, o being the PointJacobi
\* mul_add worked on (a converted copy when other is not a PointJacobi)
mul_add_outer(other, o) == IF other.kind # "jac" THEN other ELSE o

\* self * self_mul + other * other_mul from the two calls ms and mo of __mul__
mul_add_separate(other, ms, mo) ==
    [ret |-> Add(ms.ret, mo.ret), self |-> ms.self,
     other |-> mul_add_outer(other, mo.self)]

\* mul_add once the four combinations comb of +-self, +-other are computed
mul_add_joint(other, s2, o2, sm, om, na, nb, comb) ==
    IF comb.pApB[2] = 0 \/ comb.pApB[3] = 0 THEN
        mul_add_separate(other, JacobiMulCall(s2, sm), JacobiMulCall(o2, om))
    ELSE
        [ret |-> JacobiResult(s2,
                     mul_add_loop(na, nb, Max(Len(na), Len(nb)), <<0, 0, 1>>,
                                  <<s2.X, s2.Y, s2.Z>>, <<o2.X, o2.Y, o2.Z>>,
                                  comb, s2.curve)),
         self |-> s2, other |-> mul_add_outer(other, o2)]

\* mul_add on the scaled objects s2 and o2 with the reduced scalars sm and om
mul_add_scaled(other, s2, o2, sm, om, p, a) ==
    mul_add_joint(other, s2, o2, sm, om, naf(sm), naf(om),
        [mAmB |-> jadd(s2.X, -s2.Y, s2.Z, o2.X, -o2.Y, o2.Z, p, a),
         pAmB |-> jadd(s2.X, s2.Y, s2.Z, o2.X, -o2.Y, o2.Z, p, a),
         mApB |-> jadd(s2.X, -s2.Y, s2.Z, o2.X, o2.Y, o2.Z, p, a),
         pApB |-> jadd(s2.X, s2.Y, s2.Z, o2.X, o2.Y, o2.Z, p, a)])

\* mul_add after the two _maybe_precompute() calls left the objects as s1, o1
mul_add_prepared(self, self_mul, other, other_mul, s1, o1) ==
    IF IsErr(s1) THEN [ret |-> s1, self |-> self, other |-> other]
    ELSE IF IsErr(o1) THEN [ret |-> o1, self |-> s1, other |-> other]
    ELSE IF s1.pre # <<>> /\ o1.pre # <<>> THEN
        mul_add_separate(other, JacobiMulCall(s1, self_mul),
                         JacobiMulCall(o1, other_mul))
    ELSE mul_add_scaled(other, scale(s1), scale(o1),
             IF s1.order # 0 THEN self_mul % s1.order ELSE self_mul,
             IF s1.order # 0 THEN other_mul % s1.order ELSE other_mul,
             s1.curve.p, s1.curve.a)

\* mul_add when it reduces to the single multiplication m of self
mul_add_only_self(other, m) ==
    [ret |-> m.ret, self |-> m.self, other |-> other]

\* mul_add when it reduces to the single multiplication m of other
mul_add_only_other(self, m) ==
    [ret |-> m.ret, self |-> self, other |-> m.self]

\* PointJacobi.mul_add(self, self_mul, other, other_mul) as a call
MulAddCall(self, self_mul, other, other_mul) ==
    IF PointEq(other, INFINITY) \/ other_mul = 0 THEN
        mul_add_only_self(other, JacobiMulCall(self, self_mul))
    ELSE IF self_mul = 0 THEN
        IF other.kind = "jac" THEN
            mul_add_only_other(self, JacobiMulCall(other, other_mul))
        ELSE [ret |-> Mul(other, other_mul), self |-> self, other |-> other]
    ELSE mul_add_prepared(self, self_mul, other, other_mul,
             maybe_precompute(self),
             maybe_precompute(IF other.kind # "jac"
                              THEN from_affine(other, FALSE) ELSE other))

\* the value of self.mul_add(self_mul, other, other_mul)
MulAdd(self, self_mul, other, other_mul) ==
    MulAddCall(self, self_mul, other, other_mul).ret

----------------------------------------------------------------------------
(* Point encodings (AbstractPoint).  A byte string is a sequence of        *)
(* numbers in 0..255.                                                      *)

Encodings == {"raw", "uncompressed", "compressed", "hybrid"}

\* numbertheory.square_root_mod_prime: some root of a modulo p, -1 standing
\* for SquareRootError; which root is returned is not specified, `root'
\* selects it
square_root_mod_prime(a, p, root) ==
    LET rs == SquareRoots(a, p)
    IN IF rs = {} THEN 0 - 1
       ELSE IF root = 0 THEN CHOOSE r \in rs : \A q \in rs : r <= q
       ELSE CHOOSE r \in rs : \A q \in rs : r >= q

from_raw_encoding(data, raw_encoding_length) ==
    IF Len(data) # raw_encoding_length THEN Raise("AssertionError")
    ELSE LET xs == SubSeq(data, 1, raw_encoding_length \div 2)
             ys == SubSeq(data, raw_encoding_length \div 2 + 1, Len(data))
         IN XY(string_to_number(xs), string_to_number(ys))

from_compressed(data, curve, root) ==
    IF data[1] \notin {2, 3} THEN Raise("MalformedPointError")
    ELSE LET is_even == data[1] = 2
             x == string_to_number(Tail(data))
             p == curve.p
             xr == x % p
             alpha == (((xr * xr * xr) % p) + curve.a * x + curve.b) % p
             beta == square_root_mod_prime(alpha, p, root)
         IN IF beta < 0 THEN Raise("MalformedPointError")
            ELSE IF is_even = ((beta % 2) = 1) THEN XY(x, p - beta)
            ELSE XY(x, beta)

\* a hybrid decoder that never looks at the tag's parity
from_hybrid_Unchecked(data, raw_encoding_length, validate_encoding) ==
    IF data[1] \notin {6, 7} THEN Raise("AssertionError")
    ELSE from_raw_encoding(Tail(data), raw_encoding_length)

from_hybrid(data, raw_encoding_length, validate_encoding) ==
    IF data[1] \notin {6, 7} THEN Raise("AssertionError")
    ELSE LET r == from_raw_encoding(Tail(data), raw_encoding_length)
         IN IF IsErr(r) THEN r
            ELSE IF validate_encoding
                    /\ (\/ (r.Y % 2) = 1 /\ data[1] # 7
                        \/ (r.Y % 2) = 0 /\ data[1] # 6)
            THEN Raise("MalformedPointError")
            ELSE r

\* a decoder that ignores valid_encodings and tries all four encodings
from_bytes_AnyEncoding(curve, data, validate_encoding, valid_encodings, root) ==
    LET key_len == Len(data)
        raw_encoding_length == 2 * orderlen(curve.p)
    IN IF key_len = raw_encoding_length
       THEN from_raw_encoding(data, raw_encoding_length)
       ELSE IF key_len = raw_encoding_length + 1
       THEN IF data[1] \in {6, 7}
            THEN from_hybrid(data, raw_encoding_length, validate_encoding)
            ELSE IF data[1] = 4
            THEN from_raw_encoding(Tail(data), raw_encoding_length)
            ELSE Raise("MalformedPointError")
       ELSE IF key_len = (raw_encoding_length \div 2) + 1
       THEN from_compressed(data, curve, root)
       ELSE Raise("MalformedPointError")

\* AbstractPoint.from_bytes: the coordinates, or the error raised.  An empty
\* valid_encodings stands for None.
from_bytes(curve, data, validate_encoding, valid_encodings, root) ==
    LET ve == IF valid_encodings = {} THEN Encodings ELSE valid_encodings
        key_len == Len(data)
        raw_encoding_length == 2 * orderlen(curve.p)
    IN IF ~(ve \subseteq Encodings) THEN Raise("ValueError")
       ELSE IF key_len = raw_encoding_length /\ "raw" \in ve
       THEN from_raw_encoding(data, raw_encoding_length)
       ELSE IF key_len = raw_encoding_length + 1
               /\ ("hybrid" \in ve \/ "uncompressed" \in ve)
       THEN IF data[1] \in {6, 7} /\ "hybrid" \in ve
            THEN from_hybrid(data, raw_encoding_length, validate_encoding)
            ELSE IF data[1] = 4 /\ "uncompressed" \in ve
            THEN from_raw_encoding(Tail(data), raw_encoding_length)
            ELSE Raise("MalformedPointError")
       ELSE IF key_len = (raw_encoding_length \div 2) + 1 /\ "compressed" \in ve
       THEN from_compressed(data, curve, root)
       ELSE Raise("MalformedPointError")

\* PointJacobi.from_bytes
JacobiFromBytes(curve, data, validate_encoding, valid_encodings, order, generator, root) ==
    LET r == from_bytes(curve, data, validate_encoding, valid_encodings, root)
    IN IF IsErr(r) THEN r ELSE PointJacobi(curve, r.X, r.Y, 1, order, generator)

\* Point.from_bytes
AffineFromBytes(curve, data, validate_encoding, valid_encodings, order, root) ==
    LET r == from_bytes(curve, data, validate_encoding, valid_encodings, root)
    IN IF IsErr(r) THEN r ELSE Point(curve, r.X, r.Y, order)


raw_encode(self) ==
    number_to_string(affine_x(self), self.curve.p) \o number_to_string(affine_y(self), self.curve.p)

\* a compressed encoder that always writes the even tag
compressed_encode_EvenTag(self) ==
    <<2>> \o number_to_string(affine_x(self), self.curve.p)

compressed_encode(self) ==
    LET x_str == number_to_string(affine_x(self), self.curve.p)
    IN IF (affine_y(self) % 2) = 1 THEN <<3>> \o x_str ELSE <<2>> \o x_str

hybrid_encode(self) ==
    IF (affine_y(self) % 2) = 1 THEN <<7>> \o raw_encode(self) ELSE <<6>> \o raw_encode(self)

to_bytes(self, encoding) ==
    IF encoding = "raw" THEN raw_encode(self)
    ELSE IF encoding = "uncompressed" THEN <<4>> \o raw_encode(self)
    ELSE IF encoding = "hybrid" THEN hybrid_encode(self)
    ELSE compressed_encode(self)

----------------------------------------------------------------------------
(* Mathematical reference: the textbook group law on affine points, used   *)
(* to pick point orders and to state what the true sum is.  A reference    *)
(* point is <<>> (the identity) or <<x, y>> with 0 <= x, y < p.            *)

RefAdd(c, A, B) ==
    IF A = <<>> THEN B
    ELSE IF B = <<>> THEN A
    ELSE IF A[1] = B[1] /\ ((A[2] + B[2]) % c.p) = 0 THEN <<>>
    ELSE LET l == IF A[1] = B[1]
                  THEN ((3 * A[1] * A[1] + c.a) * inverse_mod(2 * A[2], c.p)) % c.p
                  ELSE ((B[2] - A[2]) * inverse_mod(B[1] - A[1], c.p)) % c.p
             x3 == (l * l - A[1] - B[1]) % c.p
         IN <<x3, (l * (A[1] - x3) - A[2]) % c.p>>

RECURSIVE RefMul(_, _, _)
RefMul(c, k, A) ==
    IF k = 0 THEN <<>>
    ELSE IF k < 0 THEN RefMul(c, -k, IF A = <<>> THEN A ELSE <<A[1], (-A[2]) % c.p>>)
    ELSE RefAdd(c, RefMul(c, k - 1, A), A)

RECURSIVE RefOrderFrom(_, _, _, _)
RefOrderFrom(c, A, acc, n) ==
    IF acc = <<>> THEN n ELSE RefOrderFrom(c, A, RefAdd(c, acc, A), n + 1)

\* the order of A in the group of the curve
RefOrder(c, A) == RefOrderFrom(c, A, A, 1)

\* the twisted-Edwards addition law on affine points of a complete curve
RefEdAdd(c, A, B) ==
    LET t == (c.b * A[1] * B[1] * A[2] * B[2]) % c.p
    IN <<((A[1] * B[2] + A[2] * B[1]) * inverse_mod(1 + t, c.p)) % c.p,
         ((A[2] * B[2] - c.a * A[1] * B[1]) * inverse_mod(1 - t, c.p)) % c.p>>

RECURSIVE RefEdOrderFrom(_, _, _, _)
RefEdOrderFrom(c, A, acc, n) ==
    IF acc = <<0, 1>> THEN n ELSE RefEdOrderFrom(c, A, RefEdAdd(c, acc, A), n + 1)

RefEdOrder(c, A) == RefEdOrderFrom(c, A, A, 1)

\* the affine point a (non-error) short-Weierstrass object stands for
RefOf(x) ==
    IF x.kind = "inf" THEN <<>>
    ELSE IF x.kind = "aff" THEN <<x.X % x.curve.p, x.Y % x.curve.p>>
    ELSE IF x.Y = 0 \/ x.Z = 0 THEN <<>>
    ELSE <<jx(x) % x.curve.p, jy(x) % x.curve.p>>

----------------------------------------------------------------------------
(* Inputs *)

\* short-Weierstrass curves y^2 = x^3 + a x + b over F_p
C5 == Curve("W", 5, 1, 1, 1)          \* 9 points, no point with y = 0
C7 == Curve("W", 7, 1, 1, 1)          \* 5 points (prime order)
C5even == Curve("W", 5, 0, 1, 1)      \* 6 points, (4, 0) has order 2
C11 == Curve("W", 11, 1, 6, 1)        \* 13 points (prime order)
C5h3 == Curve("W", 5, 1, 1, 3)        \* C5 with cofactor 3 declared
C257 == Curve("W", 257, 1, 1, 1)      \* a field that needs two bytes

\* twisted-Edwards curves a x^2 + y^2 = 1 + d x^2 y^2 over F_p
E13 == Curve("E", 13, 1, 2, 1)        \* a square, d non-square: complete
E7 == Curve("E", 7, 6, 3, 1)          \* a = -1

CurvesW == {C5, C7, C5even, C11}
CurvesE == {E13, E7}

\* the affine points of a curve
PointsOn(c) ==
    {xy \in (0..(c.p - 1)) \X (0..(c.p - 1)) :
        IF c.type = "W" THEN contains_point(c, xy[1], xy[2])
        ELSE ed_contains_point(c, xy[1], xy[2])}

Zs(c) == 1..Min(MaxZ, c.p - 1)

\* the PointJacobi objects standing for the affine point xy: every Z
\* representation, order unset or set, generator flag only with an order
JacobiObjects(c, xy) ==
    {PointJacobi(c, (xy[1] * z * z) % c.p, (xy[2] * z * z * z) % c.p, z, o[1], o[2]) :
        z \in Zs(c),
        o \in {<<0, FALSE>>, <<RefOrder(c, xy), FALSE>>, <<RefOrder(c, xy), TRUE>>}}

\* the Point objects standing for xy (cofactor 1: no order check)
AffineObjects(c, xy) ==
    {Point(c, xy[1], xy[2], o) : o \in {0, RefOrder(c, xy)}}

\* the addition law is complete when a is a square and d is not
Complete(c) ==
    /\ \E r \in 1..(c.p - 1) : ((r * r) % c.p) = c.a
    /\ \A r \in 1..(c.p - 1) : ((r * r) % c.p) # c.b

\* the PointEdwards objects standing for xy
EdwardsObjects(c, xy) ==
    {PointEdwards(c, (xy[1] * z) % c.p, (xy[2] * z) % c.p, z,
                  (xy[1] * xy[2] * z) % c.p, o) :
        z \in Zs(c),
        o \in {0} \cup (IF Complete(c) THEN {RefEdOrder(c, xy)} ELSE {})}

Scalars == (0 - MaxNeg)..MaxScalar

----------------------------------------------------------------------------
(* Operations on one point: doubling, identity and inverse laws            *)

NoCodec == blob = <<>> /\ venc = {} /\ strict = TRUE

\* no operation has run yet, and no thread is running
Fresh == op = "init" /\ res = INFINITY /\ aux = <<>> /\ pc = <<>> /\ loc = <<>>

ObjectsOn(c) ==
    UNION {IF c.type = "W" THEN JacobiObjects(c, xy) \cup AffineObjects(c, xy)
           ELSE EdwardsObjects(c, xy) : xy \in PointsOn(c)}

\* the object after self * k (PointJacobi.__mul__ scales and precomputes)
AfterMul(self, k) == IF self.kind = "jac" THEN JacobiMulCall(self, k).self ELSE self

InitPoint ==
    /\ P \in UNION {ObjectsOn(c) : c \in CurvesW \cup CurvesE}
              \cup {INFINITY} \cup {PointJacobi(c, 0, 0, 1, 0, FALSE) : c \in CurvesW}
    /\ Q = INFINITY /\ k1 = 0 /\ k2 = 0
    /\ NoCodec /\ Fresh

\* P.double(), P + P and P * 2
Doubling ==
    /\ op = "init"
    /\ op' = "double"
    /\ res' = Double(P)
    /\ aux' = <<Add(P, P), Mul(P, 2)>>
    /\ P' = AfterMul(P, 2)
    /\ UNCHANGED <<Q, k1, k2, blob, venc, strict, pc, loc>>

\* P + INFINITY and INFINITY + P
AddInfinity ==
    /\ op = "init"
    /\ op' = "add_inf"
    /\ res' = Add(P, INFINITY)
    /\ aux' = Add(INFINITY, P)
    /\ UNCHANGED <<P, Q, k1, k2, blob, venc, strict, pc, loc>>

\* P * k
ScalarMul ==
    /\ op = "init"
    /\ \E k \in Scalars :
          /\ k1' = k
          /\ res' = Mul(P, k)
          /\ P' = AfterMul(P, k)
    /\ op' = "mul"
    /\ aux' = P
    /\ UNCHANGED <<Q, k2, blob, venc, strict, pc, loc>>

\* P + (-P)
AddNegation ==
    /\ op = "init"
    /\ op' = "add_neg"
    /\ aux' = Neg(P)
    /\ res' = Add(P, Neg(P))
    /\ UNCHANGED <<P, Q, k1, k2, blob, venc, strict, pc, loc>>

\* x(), y(), then P.scale() and P.scale() again, for a PointJacobi P
Scaling ==
    /\ op = "init"
    /\ P.kind = "jac"
    /\ op' = "scale"
    /\ res' = scale(P)
    /\ aux' = <<jx(P), jy(P), scale(scale(P)), P>>
    /\ P' = scale(P)
    /\ UNCHANGED <<Q, k1, k2, blob, venc, strict, pc, loc>>

\* the operations with the identity as an operand
IdentityOps == {"I+P", "P+I", "I+I", "k*I", "I.double()", "-I"}

\* one arithmetic operation on INFINITY
IdentityArithmetic ==
    /\ op = "init"
    /\ \E which \in IdentityOps : \E k \in Scalars :
          /\ aux' = <<which>>
          /\ k1' = IF which = "k*I" THEN k ELSE 0
          /\ res' = IF which = "I+P" THEN AffineAdd(INFINITY, P)
                    ELSE IF which = "P+I" THEN Add(P, INFINITY)
                    ELSE IF which = "I+I" THEN AffineAdd(INFINITY, INFINITY)
                    ELSE IF which = "k*I" THEN AffineMul(INFINITY, k)
                    ELSE IF which = "I.double()" THEN AffineDouble(INFINITY)
                    ELSE AffineNeg(INFINITY)
    /\ op' = "identity"
    /\ UNCHANGED <<P, Q, k2, blob, venc, strict, pc, loc>>

\* k * P for a negative k against (-k) * (-P), P a PointJacobi or a Point
NegativeMul ==
    /\ op = "init"
    /\ P.kind \in {"jac", "aff"}
    /\ \E k \in (0 - MaxNeg)..(0 - 1) :
          /\ k1' = k
          /\ res' = Mul(P, k)
          /\ aux' = <<P, Mul(Neg(P), 0 - k)>>
          /\ P' = AfterMul(P, k)
    /\ op' = "neg_mul"
    /\ UNCHANGED <<Q, k2, blob, venc, strict, pc, loc>>

NextPoint ==
    \/ Doubling \/ AddInfinity \/ ScalarMul \/ AddNegation \/ Scaling
    \/ IdentityArithmetic \/ NegativeMul

SpecPoint == InitPoint /\ [][NextPoint]_vars

\* C3: for every point P of each point type, P + P, P.double() and P * 2
\* are all equal points (under the classes' own ==).
C3_DoublingConsistent ==
    op = "double" =>
        /\ PointEq(aux[1], res)
        /\ PointEq(res, aux[2])
        /\ PointEq(aux[1], aux[2])

\* C4: P + INFINITY and INFINITY + P both equal P, 0 * P is INFINITY and
\* 1 * P equals P, for every point P of each point type.
C4_IdentityLaws ==
    /\ op = "add_inf" => PointEq(res, P) /\ PointEq(aux, P)
    /\ (op = "mul" /\ k1 = 0) => res = INFINITY
    /\ (op = "mul" /\ k1 = 1) => PointEq(res, aux)

C4_Witness ==
    \/ op = "add_inf" /\ P.kind = "jac" /\ P.Z # 1 /\ P.Y # 0 /\ res = P /\ aux = P
    \/ op = "mul" /\ k1 = 1 /\ aux.kind = "ed" /\ aux.X # 0 /\ res = aux

\* C5: for every non-identity short-Weierstrass point P (PointJacobi in any
\* Z representation, affine Point), P + (-P) is INFINITY.
C5_InverseLaw ==
    (op = "add_neg" /\ P.kind \in {"jac", "aff"} /\ ~PointEq(P, INFINITY)) =>
        res = INFINITY

C5_Witness ==
    /\ op = "add_neg" /\ P.kind = "jac" /\ P.Z # 1 /\ P.Y # 0
    /\ aux.Y = 0 - P.Y /\ res = INFINITY

\* a PointJacobi that was not the identity before P.scale() ran on it
ScaledNonIdentity == op = "scale" /\ ~JacobiEq(aux[4], INFINITY)

\* C13: for every non-identity PointJacobi, after scale() the stored Z is 1
\* and x() and y() return what they returned before the call; a second
\* scale() leaves the stored coordinate triple unchanged.
C13_ScaleIdempotent ==
    ScaledNonIdentity =>
        /\ P.Z = 1
        /\ res = P
        /\ jx(P) = aux[1] /\ jy(P) = aux[2]
        /\ <<aux[3].X, aux[3].Y, aux[3].Z>> = <<P.X, P.Y, P.Z>>

C13_Witness ==
    /\ ScaledNonIdentity
    /\ aux[4].Z # 1 /\ aux[4].X # P.X /\ aux[4].Y # P.Y
    /\ P.Z = 1

\* C15: every arithmetic operation applied to the identity (INFINITY + P,
\* P + INFINITY, INFINITY + INFINITY, k * INFINITY for any integer k,
\* INFINITY.double() and -INFINITY) completes with a point as its result and
\* raises no error.
C15_IdentityNeverRaises ==
    op = "identity" => res.kind \in {"inf", "aff", "jac", "ed"}

\* C16: for every short-Weierstrass point P (PointJacobi with or without
\* order, affine Point) and every negative integer k, k * P is accepted and
\* equals (-k) * (-P).
C16_NegativeScalar ==
    op = "neg_mul" =>
        /\ res.kind \in {"inf", "aff", "jac"}
        /\ PointEq(res, aux[2])

----------------------------------------------------------------------------
(* Scalar multiplication laws on one PointJacobi                           *)

NonNegScalars == 0..MaxScalar

InitScalar ==
    /\ \E c \in CurvesW : P \in UNION {JacobiObjects(c, xy) : xy \in PointsOn(c)}
    /\ k1 \in NonNegScalars /\ k2 \in NonNegScalars
    /\ Q = INFINITY
    /\ NoCodec /\ Fresh

\* (k1 + k2) * P against k1 * P + k2 * P
MulOfSum ==
    /\ op = "init"
    /\ op' = "mul_sum"
    /\ res' = Mul(P, k1 + k2)
    /\ aux' = Add(Mul(P, k1), Mul(P, k2))
    /\ P' = AfterMul(P, k1 + k2)
    /\ UNCHANGED <<Q, k1, k2, blob, venc, strict, pc, loc>>

\* k1 * (k2 * P) against (k1 * k2) * P
MulOfMul ==
    /\ op = "init"
    /\ op' = "mul_mul"
    /\ res' = Mul(Mul(P, k2), k1)
    /\ aux' = Mul(P, k1 * k2)
    /\ P' = AfterMul(P, k2)
    /\ UNCHANGED <<Q, k1, k2, blob, venc, strict, pc, loc>>

NextScalar == MulOfSum \/ MulOfMul

SpecScalar == InitScalar /\ [][NextScalar]_vars

\* C2: for every PointJacobi P (order unset, order set, generator) and all
\* non-negative k1, k2: (k1 + k2) * P equals k1 * P + k2 * P, and
\* k1 * (k2 * P) equals (k1 * k2) * P.
C2_ScalarLaws ==
    op \in {"mul_sum", "mul_mul"} => PointEq(res, aux)

----------------------------------------------------------------------------
(* mul_add on a pair of points of one curve                                *)

MaxPairScalar == 4

PairScalars == (0 - MaxNeg)..MaxPairScalar

\* the second operand: a PointJacobi (plain, or a generator with its table
\* still to be built) or an affine Point, with or without order
SecondObjects(c, xy) ==
    {PointJacobi(c, xy[1], xy[2], 1, 0, FALSE),
     PointJacobi(c, (xy[1] * 4) % c.p, (xy[2] * 8) % c.p, 2, RefOrder(c, xy), TRUE),
     Point(c, xy[1], xy[2], 0),
     Point(c, xy[1], xy[2], RefOrder(c, xy))}

InitPair ==
    /\ \E c \in {C5, C7} :
          /\ P \in UNION {JacobiObjects(c, xy) : xy \in PointsOn(c)}
          /\ Q \in UNION {SecondObjects(c, xy) : xy \in PointsOn(c)}
    /\ k1 \in PairScalars /\ k2 \in PairScalars
    /\ NoCodec /\ Fresh

\* P.mul_add(k1, Q, k2), and on untouched copies P * k1 + Q * k2
CallMulAdd ==
    /\ op = "init"
    /\ op' = "mul_add"
    /\ \E call \in {MulAddCall(P, k1, Q, k2)} :
          /\ res' = call.ret
          /\ P' = call.self
          /\ Q' = call.other
    /\ aux' = Add(Mul(P, k1), Mul(Q, k2))
    /\ UNCHANGED <<k1, k2, blob, venc, strict, pc, loc>>

NextPair == CallMulAdd

SpecPair == InitPair /\ [][NextPair]_vars

\* C1: for every pair of points P, Q on the same short-Weierstrass curve and
\* every pair of integer scalars k1, k2, P.mul_add(k1, Q, k2) returns a
\* point equal to k1 * P + k2 * Q computed by two scalar multiplications and
\* one addition.
C1_MulAddMatchesReference ==
    op = "mul_add" => PointEq(res, aux)

----------------------------------------------------------------------------
(* Operands on two different curves                                        *)

\* a few objects of each class for the affine point xy
CrossObjects(c, xy) ==
    IF c.type = "W"
    THEN {PointJacobi(c, xy[1], xy[2], 1, 0, FALSE),
          PointJacobi(c, (xy[1] * 4) % c.p, (xy[2] * 8) % c.p, 2, RefOrder(c, xy), TRUE),
          Point(c, xy[1], xy[2], 0)}
    ELSE {PointEdwards(c, xy[1], xy[2], 1, (xy[1] * xy[2]) % c.p, 0)}

CrossCurves == {C5, C5even, C7, E13, E7}

CrossScalars == {0 - 1, 1, 2}

InitCross ==
    /\ \E c1 \in CrossCurves : \E c2 \in CrossCurves \ {c1} :
          /\ P \in UNION {CrossObjects(c1, xy) : xy \in PointsOn(c1)}
          /\ Q \in UNION {CrossObjects(c2, xy) : xy \in PointsOn(c2)}
    /\ k1 \in CrossScalars /\ k2 \in CrossScalars
    /\ NoCodec /\ Fresh

\* P + Q
CrossAdd ==
    /\ op = "init"
    /\ op' = "add"
    /\ res' = Add(P, Q)
    /\ aux' = <<>>
    /\ UNCHANGED <<P, Q, k1, k2, blob, venc, strict, pc, loc>>

\* P.mul_add(k1, Q, k2) for a PointJacobi P and a Weierstrass point Q
CrossMulAdd ==
    /\ op = "init"
    /\ P.kind = "jac" /\ Q.kind \in {"jac", "aff"}
    /\ op' = "mul_add"
    /\ \E call \in {MulAddCall(P, k1, Q, k2)} :
          /\ res' = call.ret
          /\ P' = call.self
          /\ Q' = call.other
    /\ aux' = <<>>
    /\ UNCHANGED <<k1, k2, blob, venc, strict, pc, loc>>

NextCross == CrossAdd \/ CrossMulAdd

SpecCross == InitCross /\ [][NextCross]_vars

\* C9: adding two points with +, or combining them with mul_add, raises
\* ValueError whenever the two points lie on curves that are not equal, for
\* every point type and every pair of non-identity operands and non-zero
\* scalars.
C9_CurveMismatchRaisesValueError ==
    (/\ op \in {"add", "mul_add"}
     /\ ~CurveEq(P.curve, Q.curve)
     /\ ~PointEq(P, INFINITY) /\ ~PointEq(Q, INFINITY)
     /\ k1 # 0 /\ k2 # 0)
    => res = Raise("ValueError")

----------------------------------------------------------------------------
(* Construction of an affine Point with an order argument                  *)

MaxOrderArg == 10

CtorCurves == {C5, C5h3, Curve("W", 5, 0, 1, 2), Curve("W", 7, 1, 1, 0)}

\* P holds the arguments curve, x, y; k1 holds the order argument (0: None)
InitCtor ==
    /\ \E c \in CtorCurves : \E x \in 0..(c.p - 1) : \E y \in 0..(c.p - 1) :
          P = [XY(x, y) EXCEPT !.curve = c]
    /\ k1 \in 0..MaxOrderArg
    /\ Q = INFINITY /\ k2 = 0
    /\ NoCodec /\ Fresh

\* Point(curve, x, y, order)
Construct ==
    /\ op = "init"
    /\ op' = "construct"
    /\ res' = Point(P.curve, P.X, P.Y, k1)
    /\ aux' = <<>>
    /\ UNCHANGED <<P, Q, k1, k2, blob, venc, strict, pc, loc>>

NextCtor == Construct

SpecCtor == InitCtor /\ [][NextCtor]_vars

\* C10: constructing an affine Point on a curve whose cofactor is not 1 with
\* an order argument n such that n * P is not the identity (in the true
\* group law) fails with an assertion error; construction succeeds only
\* when n * P is the identity.
C10_OrderArgumentChecked ==
    (/\ op = "construct"
     /\ contains_point(P.curve, P.X, P.Y)
     /\ P.curve.h # 1 /\ k1 # 0)
    => IF RefMul(P.curve, k1, <<P.X, P.Y>>) = <<>>
       THEN res.kind = "aff"
       ELSE res = Raise("AssertionError")

----------------------------------------------------------------------------
(* Encoding and decoding of points                                         *)

C257even == Curve("W", 257, 0, 1, 1)  \* two-byte field, (256, 0) has order 2

CoordWindow == 3

CodecCurves == {C5, C257, C257even}

\* the points whose x lies within CoordWindow of either end of the field
CodecPoints(c) ==
    {xy \in PointsOn(c) : xy[1] < CoordWindow \/ xy[1] >= c.p - CoordWindow}

CodecObjects(c, xy) ==
    {Point(c, xy[1], xy[2], 0),
     PointJacobi(c, xy[1], xy[2], 1, 0, FALSE),
     PointJacobi(c, (xy[1] * 4) % c.p, (xy[2] * 8) % c.p, 2, 0, FALSE)}

InitCodec ==
    /\ \E c \in CodecCurves : P \in UNION {CodecObjects(c, xy) : xy \in CodecPoints(c)}
    /\ venc \in SUBSET Encodings
    /\ strict \in BOOLEAN
    /\ blob = <<>>
    /\ Q = INFINITY /\ k1 = 0 /\ k2 = 0
    /\ Fresh

\* P.to_bytes(e)
Encode ==
    /\ op = "init"
    /\ \E e \in Encodings :
          /\ blob' = to_bytes(P, e)
          /\ aux' = <<e, "plain">>
    /\ op' = "encoded"
    /\ UNCHANGED <<P, Q, k1, k2, venc, strict, res, pc, loc>>

\* the ways an encoding is damaged before it reaches from_bytes
Damaged(b) ==
    {<<t>> \o Tail(b) : t \in {0, 2, 3, 4, 6, 7}}
        \cup {SubSeq(b, 1, Len(b) - 1), Append(b, 0)}
        \cup {[b EXCEPT ![Len(b)] = (IF (b[Len(b)] % 2) = 0 THEN b[Len(b)] + 1
                                     ELSE b[Len(b)] - 1)]}

\* somebody else alters the bytes in transit
Tamper ==
    /\ op = "encoded"
    /\ blob' \in Damaged(blob) \ {blob}
    /\ aux' = <<aux[1], "damaged">>
    /\ op' = "tampered"
    /\ UNCHANGED <<P, Q, k1, k2, venc, strict, res, pc, loc>>

\* cls.from_bytes(curve, blob, strict, venc) with cls the class of P; res is
\* what AbstractPoint.from_bytes returns, aux[3] what the class method does
Decode ==
    /\ op \in {"encoded", "tampered"}
    /\ \E root \in {0, 1} :
          /\ res' = from_bytes(P.curve, blob, strict, venc, root)
          /\ aux' = <<aux[1], aux[2],
                      IF P.kind = "jac"
                      THEN JacobiFromBytes(P.curve, blob, strict, venc, 0, FALSE, root)
                      ELSE AffineFromBytes(P.curve, blob, strict, venc, 0, root)>>
    /\ op' = "decoded"
    /\ UNCHANGED <<P, Q, k1, k2, blob, venc, strict, pc, loc>>

NextCodec == Encode \/ Tamper \/ Decode

SpecCodec == InitCodec /\ [][NextCodec]_vars

\* the encodings from_bytes may use: None and the empty set mean all four
Enabled == IF venc = {} THEN Encodings ELSE venc

\* an input has the byte length and leading tag of encoding e on the curve
Matches(e, b, c) ==
    LET L == orderlen(c.p)
    IN IF e = "raw" THEN Len(b) = 2 * L
       ELSE IF e = "uncompressed" THEN Len(b) = 2 * L + 1 /\ b[1] = 4
       ELSE IF e = "hybrid" THEN Len(b) = 2 * L + 1 /\ b[1] \in {6, 7}
       ELSE Len(b) = L + 1 /\ b[1] \in {2, 3}

RoundTrip == op = "decoded" /\ aux[2] = "plain" /\ Enabled = Encodings

HybridY(b) == string_to_number(SubSeq(b, (Len(b) + 1) \div 2 + 1, Len(b)))
HybridX(b) == string_to_number(SubSeq(b, 2, (Len(b) + 1) \div 2))

\* a hybrid input whose tag contradicts the parity of its y
HybridMismatch ==
    /\ op = "decoded"
    /\ Matches("hybrid", blob, P.curve) /\ "hybrid" \in Enabled
    /\ (blob[1] = 6) # ((HybridY(blob) % 2) = 0)

\* C7: a hybrid-encoded input whose tag (6 even / 7 odd) contradicts the
\* parity of the encoded y is rejected with MalformedPointError when
\* validate_encoding is true, and accepted, returning the encoded (x, y),
\* when it is false.
C7_HybridTagValidated ==
    HybridMismatch =>
        IF strict THEN res = Raise("MalformedPointError")
        ELSE res = XY(HybridX(blob), HybridY(blob))

C7_Witness ==
    /\ HybridMismatch /\ ~strict /\ Len(blob) = 5
    /\ res.kind = "xy" /\ res.X > 255 /\ (res.Y % 2) = 1 /\ blob[1] = 6

\* C8: from_bytes decodes an input only with an enabled encoding whose
\* length and tag the input has; an input that matches no enabled encoding
\* raises MalformedPointError and returns no coordinates.
C8_OnlyEnabledEncodings ==
    op = "decoded" =>
        /\ (~\E e \in Enabled : Matches(e, blob, P.curve))
              => res = Raise("MalformedPointError")
        /\ res.kind = "xy" => \E e \in Enabled : Matches(e, blob, P.curve)

C8_Witness ==
    /\ op = "decoded" /\ aux[2] = "plain" /\ aux[1] = "compressed"
    /\ venc = {"raw", "uncompressed", "hybrid"}
    /\ res = Raise("MalformedPointError")

\* from_bytes returned the pair (x, y) of a raw, uncompressed or hybrid
\* encoding, and the pair is not a point of the curve
OffCurveDecoded ==
    /\ op = "decoded"
    /\ ~IsErr(res)
    /\ \E e \in {"raw", "uncompressed", "hybrid"} : Matches(e, blob, P.curve)
    /\ ~contains_point(P.curve, res.X, res.Y)

\* C11: PointJacobi.from_bytes and Point.from_bytes raise MalformedPointError
\* for every well-formed raw, uncompressed or hybrid encoding whose decoded
\* (x, y) is not on the curve; no object with off-curve coordinates is
\* returned.
C11_OffCurveRejected ==
    OffCurveDecoded => (IsErr(aux[3]) /\ aux[3].err = "MalformedPointError")

----------------------------------------------------------------------------
(* Threads sharing one PointJacobi.  P is the shared object: its coordinate *)
(* triple and its precomputation table are each read and written by single *)
(* attribute accesses; Q keeps the object as it was constructed.  A thread  *)
(* makes one call, one attribute access per step.                           *)

Threads == {1, 2}

\* the multipliers the threads use (1 is left out: __mul__ then returns the
\* shared object itself, which has no value of its own to compare)
ThreadScalars == {2, 3}

\* self.__coords
coords(self) == <<self.X, self.Y, self.Z>>

\* an assignment that stores x and y and leaves the old z in place
WithCoords_KeepZ(self, t) == [self EXCEPT !.X = t[1], !.Y = t[2]]

\* the object with its __coords attribute set to the triple t
WithCoords(self, t) == [self EXCEPT !.X = t[1], !.Y = t[2], !.Z = t[3]]

\* PointJacobi.to_affine
to_affine(self) ==
    IF self.Y = 0 \/ self.Z = 0 THEN INFINITY
    ELSE Point(self.curve, jx(self), jy(self), self.order)

\* a _maybe_precompute that builds the table in place, in the attribute
table_while_building_InPlace(attribute, precompute) == precompute

\* self.__precompute while _maybe_precompute appends to its local list
\* `precompute': the attribute is not touched before the final assignment
table_while_building(attribute, precompute) == attribute

\* the private second operands of mul_add: the same point and its negation
ThreadOthers(self) ==
    {PointJacobi(self.curve, jx(self), jy(self), 1, 0, FALSE),
     PointJacobi(self.curve, jx(self), (0 - jy(self)) % self.curve.p, 1, 0, FALSE)}

\* the calls a thread may make on the shared object
ThreadCalls(self) ==
    {[op |-> "mul", k |-> k, km |-> 0, other |-> INFINITY] : k \in ThreadScalars}
    \cup {[op |-> "mul_add", k |-> 2, km |-> m, other |-> o] :
              m \in {0, 1}, o \in ThreadOthers(self)}
    \cup {[op |-> n, k |-> 0, km |-> 0, other |-> INFINITY] :
              n \in {"scale", "x", "y", "to_affine"}}

\* the locals of a thread that has not called anything yet
Idle ==
    [call |-> <<>>, k |-> 0, km |-> 0, other |-> INFINITY,
     after |-> "", after2 |-> "", cont |-> "",
     i |-> 0, doubler |-> INFINITY, tab |-> <<>>, new |-> <<>>,
     ret |-> INFINITY, tables |-> {}, triples |-> {}]

\* the shared objects: plain and generator-flagged, Z = 1 and Z # 1
ThreadObjects(c, xy) ==
    {PointJacobi(c, (xy[1] * z * z) % c.p, (xy[2] * z * z * z) % c.p, z, o[1], o[2]) :
        z \in {1, 2}, o \in {<<0, FALSE>>, <<RefOrder(c, xy), TRUE>>}}

InitThreads ==
    /\ P \in UNION {ThreadObjects(C7, xy) : xy \in PointsOn(C7)}
    /\ Q = P
    /\ k1 = 0 /\ k2 = 0 /\ NoCodec
    /\ op = "init" /\ res = INFINITY /\ aux = <<>>
    /\ pc = [t \in Threads |-> "idle"]
    /\ loc = [t \in Threads |-> Idle]

\* thread t continues at label with the locals l
Goto(t, label, l) ==
    /\ pc' = [pc EXCEPT ![t] = label]
    /\ loc' = [loc EXCEPT ![t] = l]

\* the call of thread t returns value; the fallback of mul_add still adds
\* other * other_mul to the product it asked __mul__ for
Return(t, l, value) ==
    Goto(t, "done",
         [l EXCEPT !.ret = IF l.cont = "fallback"
                           THEN Add(value, Mul(l.other, l.km))
                           ELSE value])

\* the locals l after a read of self.__coords
SawCoords(l) == [l EXCEPT !.triples = @ \cup {coords(P)}]

\* the locals l after a read of self.__precompute
SawTable(l) == [l EXCEPT !.tables = @ \cup {P.pre}]

OthersUnchanged == UNCHANGED <<Q, k1, k2, blob, venc, strict, op, res, aux>>

\* a thread makes its call
Start ==
    \E t \in Threads : \E call \in ThreadCalls(Q) :
        /\ pc[t] = "idle"
        /\ Goto(t, call.op, [Idle EXCEPT !.call = call, !.k = call.k,
                                         !.km = call.km, !.other = call.other])
        /\ UNCHANGED P /\ OthersUnchanged

\* __mul__: the shortcuts, the reduction of the scalar and the call of
\* _maybe_precompute
MulEntry ==
    \E t \in Threads :
        /\ pc[t] = "mul"
        /\ IF P.Y = 0 \/ loc[t].k = 0
           THEN Return(t, SawCoords(loc[t]), INFINITY)
           ELSE IF loc[t].k = 1
           THEN Return(t, SawCoords(loc[t]), P)
           ELSE Goto(t, "mp_check",
                     [SawCoords(loc[t]) EXCEPT !.k = reduced_scalar(P, @),
                                               !.after = "mul_table"])
        /\ UNCHANGED P /\ OthersUnchanged

\* _maybe_precompute: if not self.__generator or self.__precompute: return
PrecomputeCheck ==
    \E t \in Threads :
        /\ pc[t] = "mp_check"
        /\ IF ~P.gen \/ P.pre # <<>>
           THEN Goto(t, loc[t].after, SawTable(loc[t]))
           ELSE Goto(t, "mp_read", SawTable(loc[t]))
        /\ UNCHANGED P /\ OthersUnchanged

\* _maybe_precompute: the assertion, the read of self.__coords, the first
\* doubler and the first table entry
PrecomputeRead ==
    \E t \in Threads :
        /\ pc[t] = "mp_read"
        /\ IF P.order = 0
           THEN Return(t, [loc[t] EXCEPT !.cont = ""], Raise("AssertionError"))
           ELSE \E doubler \in {PointJacobi(P.curve, P.X, P.Y, P.Z,
                                            P.order * 2, FALSE)} :
                    Goto(t, "mp_loop",
                         [SawCoords(loc[t]) EXCEPT
                              !.i = 1, !.doubler = doubler,
                              !.tab = << <<jx(doubler), jy(doubler)>> >>])
        /\ UNCHANGED P /\ OthersUnchanged

\* _maybe_precompute: one test of the while loop and, if it holds, one
\* iteration
PrecomputeLoop ==
    \E t \in Threads :
        /\ pc[t] = "mp_loop"
        /\ IF ~(loc[t].i < P.order * 4)
           THEN Goto(t, "mp_publish", loc[t]) /\ UNCHANGED P
           ELSE \E d \in {JacobiDouble(loc[t].doubler)} :
                    IF d.kind # "jac"
                    THEN /\ Return(t, [loc[t] EXCEPT !.cont = ""],
                                   Raise("AttributeError"))
                         /\ UNCHANGED P
                    ELSE \E n \in {scale(d)} :
                         \E tab \in {Append(loc[t].tab, <<jx(n), jy(n)>>)} :
                             /\ Goto(t, "mp_loop",
                                     [loc[t] EXCEPT !.i = @ * 2, !.doubler = n,
                                                    !.tab = tab])
                             /\ P' = [P EXCEPT
                                        !.pre = table_while_building(@, tab)]
        /\ OthersUnchanged

\* _maybe_precompute: self.__precompute = precompute
PrecomputePublish ==
    \E t \in Threads :
        /\ pc[t] = "mp_publish"
        /\ P' = [P EXCEPT !.pre = loc[t].tab]
        /\ Goto(t, loc[t].after, loc[t])
        /\ OthersUnchanged

\* __mul__: if self.__precompute
MulTable ==
    \E t \in Threads :
        /\ pc[t] = "mul_table"
        /\ IF P.pre # <<>>
           THEN Goto(t, "mul_iter", SawTable(loc[t]))
           ELSE Goto(t, "sc_read", [SawTable(loc[t]) EXCEPT !.after2 = "mul_coords"])
        /\ UNCHANGED P /\ OthersUnchanged

\* _mul_precompute: the loop over self.__precompute
MulIterate ==
    \E t \in Threads :
        /\ pc[t] = "mul_iter"
        /\ Return(t, SawTable(loc[t]), mul_precompute(P, loc[t].k))
        /\ UNCHANGED P /\ OthersUnchanged

\* scale(): the read of self.__coords and the computation of the new triple
ScaleRead ==
    \E t \in Threads :
        /\ pc[t] = "sc_read"
        /\ IF P.Z = 1
           THEN Goto(t, loc[t].after2, SawCoords(loc[t]))
           ELSE Goto(t, "sc_write",
                     [SawCoords(loc[t]) EXCEPT !.new = coords(scale(P))])
        /\ UNCHANGED P /\ OthersUnchanged

\* scale(): self.__coords = (x, y, 1)
ScaleWrite ==
    \E t \in Threads :
        /\ pc[t] = "sc_write"
        /\ P' = WithCoords(P, loc[t].new)
        /\ Goto(t, loc[t].after2, loc[t])
        /\ OthersUnchanged

\* the call of scale() returns self
ScaleDone ==
    \E t \in Threads :
        /\ pc[t] = "sc_done"
        /\ Return(t, loc[t], WithCoords(Q, coords(P)))
        /\ UNCHANGED P /\ OthersUnchanged

\* __mul__: X2, Y2, _ = self.__coords and the NAF ladder
MulCoords ==
    \E t \in Threads :
        /\ pc[t] = "mul_coords"
        /\ Return(t, SawCoords(loc[t]), mul_naf(P, naf(loc[t].k)).ret)
        /\ UNCHANGED P /\ OthersUnchanged

\* mul_add: the shortcuts and the call of self._maybe_precompute(); the
\* private other is no generator, so its own call returns at once
MulAddEntry ==
    \E t \in Threads :
        /\ pc[t] = "mul_add"
        /\ IF PointEq(loc[t].other, INFINITY) \/ loc[t].km = 0
           THEN Goto(t, "mul", loc[t])
           ELSE IF loc[t].k = 0
           THEN Return(t, loc[t], Mul(loc[t].other, loc[t].km))
           ELSE Goto(t, "mp_check", [loc[t] EXCEPT !.after = "ma_table"])
        /\ UNCHANGED P /\ OthersUnchanged

\* mul_add: if self.__precompute and other.__precompute (other has none),
\* the reduction of the scalars and the call of self.scale()
MulAddTable ==
    \E t \in Threads :
        /\ pc[t] = "ma_table"
        /\ Goto(t, "sc_read",
                [SawTable(loc[t]) EXCEPT
                     !.k = IF P.order # 0 THEN @ % P.order ELSE @,
                     !.km = IF P.order # 0 THEN @ % P.order ELSE @,
                     !.after2 = "ma_coords"])
        /\ UNCHANGED P /\ OthersUnchanged

\* mul_add: X1, Y1, Z1 = self.__coords, other.scale(), the combinations and
\* either the joint ladder or the fallback self * self_mul + other * other_mul
MulAddCoords ==
    \E t \in Threads :
        /\ pc[t] = "ma_coords"
        /\ \E o2 \in {scale(loc[t].other)} :
           \E sum \in {jadd(P.X, P.Y, P.Z, o2.X, o2.Y, o2.Z,
                            P.curve.p, P.curve.a)} :
               IF sum[2] = 0 \/ sum[3] = 0
               THEN Goto(t, "mul", [SawCoords(loc[t]) EXCEPT !.cont = "fallback"])
               ELSE Return(t, SawCoords(loc[t]),
                           mul_add_scaled(loc[t].other, P, o2,
                                          loc[t].k, loc[t].km,
                                          P.curve.p, P.curve.a).ret)
        /\ UNCHANGED P /\ OthersUnchanged

\* x() and y(): one read of self.__coords each
ReadAffine ==
    \E t \in Threads :
        /\ pc[t] \in {"x", "y"}
        /\ Return(t, SawCoords(loc[t]), IF pc[t] = "x" THEN jx(P) ELSE jy(P))
        /\ UNCHANGED P /\ OthersUnchanged

\* to_affine: the test for infinity and the call of self.scale()
ToAffineEntry ==
    \E t \in Threads :
        /\ pc[t] = "to_affine"
        /\ IF P.Y = 0 \/ P.Z = 0
           THEN Return(t, SawCoords(loc[t]), INFINITY)
           ELSE Goto(t, "sc_read", [SawCoords(loc[t]) EXCEPT !.after2 = "ta_coords"])
        /\ UNCHANGED P /\ OthersUnchanged

\* to_affine: x, y, z = self.__coords and the construction of the Point
ToAffineCoords ==
    \E t \in Threads :
        /\ pc[t] = "ta_coords"
        /\ Return(t, SawCoords(loc[t]), Point(P.curve, P.X, P.Y, P.order))
        /\ UNCHANGED P /\ OthersUnchanged

\* the scale() call proper starts at the read
ScaleEntry ==
    \E t \in Threads :
        /\ pc[t] = "scale"
        /\ Goto(t, "sc_read", [loc[t] EXCEPT !.after2 = "sc_done"])
        /\ UNCHANGED P /\ OthersUnchanged

NextThreads ==
    \/ Start \/ MulEntry \/ PrecomputeCheck \/ PrecomputeRead
    \/ PrecomputeLoop \/ PrecomputePublish \/ MulTable \/ MulIterate
    \/ ScaleEntry \/ ScaleRead \/ ScaleWrite \/ ScaleDone \/ MulCoords
    \/ MulAddEntry \/ MulAddTable \/ MulAddCoords
    \/ ReadAffine \/ ToAffineEntry \/ ToAffineCoords

SpecThreads == InitThreads /\ [][NextThreads]_vars

\* the table a build by one thread alone produces for the object as
\* constructed (empty when the build raises)
FullTable ==
    precompute_table(Q.order * 4,
                     PointJacobi(Q.curve, Q.X, Q.Y, Q.Z, Q.order * 2, FALSE)).pre

\* C12: under any interleaving of threads that multiply (or mul_add) the same
\* generator-flagged PointJacobi, every read of the precomputation table
\* sees the empty table or the completely filled one, never a partial one,
\* and every thread that builds the table publishes the same content.
C12_TableEmptyOrComplete ==
    P.gen =>
        /\ P.pre \in {<<>>, FullTable}
        /\ \A t \in Threads :
              /\ loc[t].tables \subseteq {<<>>, FullTable}
              /\ pc[t] = "mp_publish" => loc[t].tab = FullTable

\* two threads have each built and published the table, and a read has
\* returned it
C12_Witness ==
    /\ P.gen /\ P.pre # <<>>
    /\ \A t \in Threads : pc[t] = "done" /\ loc[t].tab = P.pre
    /\ \E t \in Threads : P.pre \in loc[t].tables

\* the two triples of the shared object: as constructed, and scaled
Triples == {coords(Q), coords(scale(Q))}

\* what the call returns when it runs alone on the object as constructed
SequentialResult(call) ==
    IF call.op = "mul" THEN JacobiMul(Q, call.k)
    ELSE IF call.op = "mul_add" THEN MulAdd(Q, call.k, call.other, call.km)
    ELSE IF call.op = "x" THEN jx(Q)
    ELSE IF call.op = "y" THEN jy(Q)
    ELSE IF call.op = "to_affine" THEN to_affine(Q)
    ELSE WithCoords(Q, coords(scale(Q)))

\* C14: under any interleaving of threads that call scale(), x(), y(),
\* to_affine(), scalar multiplication or mul_add on the same PointJacobi,
\* the stored triple and every triple a thread has read or is about to write
\* is the original triple or the scaled one with Z = 1, never a mixture, and
\* every call returns what it returns in a sequential run.
C14_ScaleRaceBenign ==
    /\ coords(P) \in Triples
    /\ \A t \in Threads :
          /\ loc[t].triples \subseteq Triples
          /\ pc[t] = "sc_write" => loc[t].new = coords(scale(Q))
          /\ pc[t] = "done" => loc[t].ret = SequentialResult(loc[t].call)

\* two different calls have both read the unscaled triple in scale(), both
\* have written the scaled one, and both have returned
C14_Witness ==
    /\ Q.Z # 1 /\ P.Z = 1
    /\ \A t \in Threads :
          /\ pc[t] = "done"
          /\ loc[t].new = coords(P)
          /\ coords(Q) \in loc[t].triples
    /\ loc[1].call.op = "mul_add" /\ loc[2].call.op = "to_affine"

----------------------------------------------------------------------------
(* The non-adjacent form of a scalar                                       *)

\* the largest scalar whose NAF is computed
MaxNafInput == 200

InitNaf ==
    /\ k1 \in 0..MaxNafInput
    /\ P = INFINITY /\ Q = INFINITY /\ k2 = 0
    /\ NoCodec /\ Fresh

\* self._naf(k1)
ComputeNaf ==
    /\ op = "init"
    /\ op' = "naf"
    /\ aux' = naf(k1)
    /\ UNCHANGED <<P, Q, k1, k2, blob, venc, strict, res, pc, loc>>

NextNaf == ComputeNaf

SpecNaf == InitNaf /\ [][NextNaf]_vars

\* the sum of d[i] * 2^(i - 1) over the digits d, least significant first
RECURSIVE NafValue(_)
NafValue(d) == IF d = <<>> THEN 0 ELSE d[1] + 2 * NafValue(Tail(d))

\* C17: for every non-negative integer k, _naf(k) returns a sequence of
\* digits d_i in {-1, 0, 1}, least significant first, whose sum of
\* d_i * 2^i is k and in which no two adjacent digits are both nonzero.
C17_NafRoundTrip ==
    op = "naf" =>
        /\ \A i \in 1..Len(aux) : aux[i] \in {0 - 1, 0, 1}
        /\ NafValue(aux) = k1
        /\ \A i \in 1..(Len(aux) - 1) : aux[i] = 0 \/ aux[i + 1] = 0

C17_Witness ==
    /\ op = "naf" /\ k1 = 7
    /\ aux = <<0 - 1, 0, 0, 1>>

----------------------------------------------------------------------------
(* The precomputation table of a generator and the multiplication by it    *)

InitTable ==
    /\ \E c \in CurvesW : \E xy \in PointsOn(c) :
          P \in {o \in JacobiObjects(c, xy) : o.gen}
    /\ Q = P
    /\ k1 \in 2..MaxScalar
    /\ k2 = 0 /\ NoCodec /\ Fresh

\* P._maybe_precompute(), as the first multiplication calls it
BuildTable ==
    /\ op = "init"
    /\ op' = "table"
    /\ \E built \in {maybe_precompute(P)} :
          /\ res' = built
          /\ P' = IF IsErr(built) THEN P ELSE built
    /\ UNCHANGED <<Q, k1, k2, blob, venc, strict, aux, pc, loc>>

\* P._mul_precompute(k1 % (2 * order)), as __mul__ calls it
FastMultiply ==
    /\ op = "table"
    /\ P.pre # <<>>
    /\ op' = "fast_mul"
    /\ k2' = reduced_scalar(P, k1)
    /\ res' = mul_precompute(P, reduced_scalar(P, k1))
    /\ aux' = mul_precompute_scalars(P.pre, 1, reduced_scalar(P, k1))
    /\ UNCHANGED <<P, Q, k1, blob, venc, strict, pc, loc>>

NextTable == BuildTable \/ FastMultiply

SpecTable == InitTable /\ [][NextTable]_vars

RECURSIVE Pow(_, _)
Pow(b, n) == IF n = 0 THEN 1 ELSE b * Pow(b, n - 1)

\* the table has been built
TableBuilt == op \in {"table", "fast_mul"} /\ P.pre # <<>>

\* entry j (counted from 0) of the table is the affine pair of m * Q; the
\* order of Q is Q.order, so m * Q = (m mod Q.order) * Q
EntryIs(j, m) ==
    <<P.pre[j + 1][1], P.pre[j + 1][2]>>
        = RefMul(Q.curve, m % Q.order, RefOf(Q))

\* after j entries the scalar k is left shifted right by bits bits, up to
\* the carry of a negative digit
ShiftedBy(j, bits) ==
    aux[j] \in {k2 \div Pow(2, bits), (k2 \div Pow(2, bits)) + 1}

\* C18 as stated: entry j of the built table is (x(2^(2j) P), y(2^(2j) P)),
\* and the fast multiply consumes one entry per two bits of the scalar.
C18_EntriesOfPowersOfFour ==
    /\ TableBuilt => \A j \in 0..(Len(P.pre) - 1) : EntryIs(j, Pow(4, j))
    /\ op = "fast_mul" => \A j \in 1..Len(aux) : ShiftedBy(j, 2 * j)

\* C18 amended: for a generator-flagged PointJacobi P with order set, entry
\* j (j = 0, 1, 2, ...) of the built precomputation table is the affine
\* pair (x(2^j P), y(2^j P)), each entry the double of the one before, and
\* the fast multiply consumes one table entry per bit of the scalar.
C18_EntriesOfPowersOfTwo ==
    /\ TableBuilt => \A j \in 0..(Len(P.pre) - 1) : EntryIs(j, Pow(2, j))
    /\ op = "fast_mul" =>
          /\ Len(aux) = Len(P.pre)
          /\ \A j \in 1..Len(aux) : ShiftedBy(j, j)

C18_Witness ==
    /\ op = "fast_mul" /\ Q.Z # 1 /\ k2 >= 8
    /\ Len(P.pre) >= 4
    /\ P.pre[2] # P.pre[1] /\ P.pre[3] # P.pre[2]
    /\ aux[1] = 4 /\ aux[2] = 2 /\ aux[3] = 1 /\ aux[4] = 0

----------------------------------------------------------------------------
(* Addition of two PointEdwards objects of one curve                       *)

\* a x^2 + y^2 = 1 + d x^2 y^2 over F_13 with a = 1, d = 5: complete, 16
\* points
E13d5 == Curve("E", 13, 1, 5, 1)

\* the second operands: every point of the curve with Z = 1
EdwardsSeconds(c) ==
    {PointEdwards(c, xy[1], xy[2], 1, (xy[1] * xy[2]) % c.p, 0) :
        xy \in PointsOn(c)}

InitEdwards ==
    /\ \E c \in {E13, E13d5} :
          /\ P \in UNION {EdwardsObjects(c, xy) : xy \in PointsOn(c)}
          /\ Q \in EdwardsSeconds(c)
    /\ k1 = 0 /\ k2 = 0 /\ NoCodec /\ Fresh

\* P + Q; aux records H = D - C of _add
EdwardsSum ==
    /\ op = "init"
    /\ op' = "ed_add"
    /\ res' = EdwardsAdd(P, Q)
    /\ aux' = <<((P.T * Q.Z) % P.curve.p) - ((P.Z * Q.T) % P.curve.p)>>
    /\ UNCHANGED <<P, Q, k1, k2, blob, venc, strict, pc, loc>>

NextEdwards == EdwardsSum

SpecEdwards == InitEdwards /\ [][NextEdwards]_vars

\* the affine point a PointEdwards object stands for
EdwardsAffine(x) == <<ex(x), ey(x)>>

\* the result r of an Edwards method stands for the affine point A; the
\* INFINITY sentinel is taken for every point the class itself compares
\* equal to it (x = 0 or x y = 0)
StandsFor(r, A) ==
    IF r.kind = "inf" THEN A[1] = 0 \/ A[2] = 0
    ELSE r.kind = "ed" /\ EdwardsAffine(r) = A

\* C19: PointEdwards addition detects its degenerate case by H = D - C = 0
\* and dispatches to the doubling of the first operand; for all points P, Q
\* of a twisted-Edwards curve the result of P + Q, the cases with H = 0
\* included, is the group-law sum of P and Q.
C19_EdwardsAddIsGroupLaw ==
    op = "ed_add" =>
        /\ StandsFor(res, RefEdAdd(P.curve, EdwardsAffine(P), EdwardsAffine(Q)))
        /\ (aux[1] = 0 /\ ~PointEq(Q, INFINITY)) =>
               res = EdwardsResult(P, edouble(P.X, P.Y, P.Z, P.T,
                                              P.curve.p, P.curve.a))

----------------------------------------------------------------------------
(* One call of mul_add, statement by statement.  pc is the call stack, a   *)
(* sequence of frames with the innermost call last; loc holds the objects  *)
(* the call works on, the value last returned and two counters.  Every     *)
(* loop of mul_add, __mul__, _maybe_precompute, _naf and Point.__mul__     *)
(* takes one step per test of its condition.                               *)

\* a frame: the label to continue at, the object the method runs on, its
\* scalar arguments and its loop variables
Frame(at, who, k) ==
    [at |-> at, who |-> who, k |-> k, km |-> 0, n |-> 0, i |-> 0,
     doubler |-> INFINITY, tab |-> <<>>, tab2 |-> <<>>,
     acc |-> <<0, 0, 1>>, comb |-> <<>>]

\* a fallback that calls mul_add again
fallback_product_Reentrant(who, k, km) ==
    [Frame("ma", "self", k) EXCEPT !.km = km]

\* the call the fallback `self * self_mul + other * other_mul' makes for the
\* product of who by k: __mul__
fallback_product(who, k, km) == Frame("mul", who, k)

\* the four combined points -A-B, +A-B, -A+B, +A+B of mul_add
mul_add_combined(s2, o2, p, a) ==
    [mAmB |-> jadd(s2.X, -s2.Y, s2.Z, o2.X, -o2.Y, o2.Z, p, a),
     pAmB |-> jadd(s2.X, s2.Y, s2.Z, o2.X, -o2.Y, o2.Z, p, a),
     mApB |-> jadd(s2.X, -s2.Y, s2.Z, o2.X, o2.Y, o2.Z, p, a),
     pApB |-> jadd(s2.X, s2.Y, s2.Z, o2.X, o2.Y, o2.Z, p, a)]

\* the accumulator after one iteration of the loop of _mul_precompute on
\* the table entry
mul_precompute_step(entry, other, acc, p, a) ==
    IF (other % 2) = 1 THEN
        IF (other % 4) >= 2
        THEN jadd(acc[1], acc[2], acc[3], entry[1], -entry[2], 1, p, a)
        ELSE jadd(acc[1], acc[2], acc[3], entry[1], entry[2], 1, p, a)
    ELSE acc

\* the scalar after that iteration
mul_precompute_rest(other) ==
    IF (other % 2) = 1 THEN
        IF (other % 4) >= 2 THEN (other + 1) \div 2 ELSE (other - 1) \div 2
    ELSE other \div 2

\* self_mul % self.__order when the order is set
mul_add_reduced(self, m) == IF self.order # 0 THEN m % self.order ELSE m

\* the digit _naf appends for an odd mult
naf_digit(mult) == IF (mult % 4) >= 2 THEN (mult % 4) - 4 ELSE mult % 4

Top == pc[Len(pc)]
Callers == SubSeq(pc, 1, Len(pc) - 1)
At(label) == pc # <<>> /\ Top.at = label

\* the object a frame's method runs on
Working(who) == IF who = "self" THEN loc.self ELSE loc.other
Store(l, who, o) ==
    IF who = "self" THEN [l EXCEPT !.self = o] ELSE [l EXCEPT !.other = o]

StepInputs == UNCHANGED <<P, Q, k1, k2, blob, venc, strict, aux>>

\* the running method continues as frame
Continue(frame, l) ==
    /\ pc' = Append(Callers, frame)
    /\ loc' = l
    /\ UNCHANGED <<op, res>>

\* the running method, to continue as frame, calls callee
CallFrom(frame, callee, l) ==
    /\ pc' = Callers \o <<frame, callee>>
    /\ loc' = l
    /\ UNCHANGED <<op, res>>

\* the running method returns value to its caller
ReturnValue(value, l) ==
    /\ pc' = Callers
    /\ loc' = [l EXCEPT !.ret = value]
    /\ IF Callers = <<>>
       THEN op' = "returned" /\ res' = value
       ELSE UNCHANGED <<op, res>>

\* an exception leaves every frame: nothing in this module catches it
RaiseError(e) ==
    /\ pc' = <<>>
    /\ loc' = loc
    /\ op' = "raised" /\ res' = Raise(e)

MulAddSelves ==
    UNION {{o \in JacobiObjects(C7, xy) : o.Z <= 2} : xy \in PointsOn(C7)}

\* the second operands for self: nothing, the same point as an affine Point,
\* and the negation of self as a plain PointJacobi and as a generator
MulAddOthers(self) ==
    {INFINITY,
     Point(self.curve, jx(self), jy(self), 0),
     PointJacobi(self.curve, (jx(self) * 4) % self.curve.p,
                 ((0 - jy(self)) * 8) % self.curve.p, 2, 0, FALSE),
     PointJacobi(self.curve, jx(self), (0 - jy(self)) % self.curve.p, 1,
                 RefOrder(self.curve, <<jx(self), jy(self)>>), TRUE)}

MulAddScalars == {0 - 3, 0, 1, 3}

InitMulAdd ==
    /\ P \in MulAddSelves
    /\ Q \in MulAddOthers(P)
    /\ k1 \in MulAddScalars /\ k2 \in MulAddScalars
    /\ NoCodec
    /\ op = "init" /\ res = INFINITY /\ aux = <<>>
    /\ pc = <<[Frame("ma", "self", k1) EXCEPT !.km = k2]>>
    /\ loc = [entries |-> 0, fallbacks |-> 0, self |-> P, other |-> Q,
              ret |-> INFINITY]

\* mul_add: the shortcuts, the conversion of other and
\* self._maybe_precompute()
MulAddEnter ==
    /\ At("ma")
    /\ \E l \in {[loc EXCEPT !.entries = @ + 1]} :
          IF PointEq(loc.other, INFINITY) \/ Top.km = 0
          THEN CallFrom([Top EXCEPT !.at = "pass"],
                        Frame("mul", "self", Top.k), l)
          ELSE IF Top.k = 0
          THEN CallFrom([Top EXCEPT !.at = "pass"],
                        IF loc.other.kind = "jac"
                        THEN Frame("mul", "other", Top.km)
                        ELSE [Frame("amul", "other", Top.km)
                                  EXCEPT !.doubler = loc.other],
                        l)
          ELSE CallFrom([Top EXCEPT !.at = "ma_pre2"],
                        Frame("pre", "self", 0),
                        [l EXCEPT !.other = IF @.kind # "jac"
                                            THEN from_affine(@, FALSE)
                                            ELSE @])
    /\ StepInputs

\* mul_add: other._maybe_precompute()
MulAddSecondPrecompute ==
    /\ At("ma_pre2")
    /\ CallFrom([Top EXCEPT !.at = "ma_tab"], Frame("pre", "other", 0), loc)
    /\ StepInputs

\* mul_add: the test of the two tables, the reduction of the scalars, the
\* two scale() calls, the combined points and the test of pApB
MulAddBranch ==
    /\ At("ma_tab")
    /\ IF loc.self.pre # <<>> /\ loc.other.pre # <<>>
       THEN CallFrom([Top EXCEPT !.at = "ma_fb2"],
                     fallback_product("self", Top.k, Top.km),
                     [loc EXCEPT !.fallbacks = @ + 1])
       ELSE \E s2 \in {scale(loc.self)} : \E o2 \in {scale(loc.other)} :
            \E sm \in {mul_add_reduced(loc.self, Top.k)} :
            \E om \in {mul_add_reduced(loc.self, Top.km)} :
            \E comb \in {mul_add_combined(s2, o2, s2.curve.p, s2.curve.a)} :
                IF comb.pApB[2] = 0 \/ comb.pApB[3] = 0
                THEN CallFrom([Top EXCEPT !.at = "ma_fb2", !.k = sm, !.km = om],
                              fallback_product("self", sm, om),
                              [loc EXCEPT !.self = s2, !.other = o2,
                                          !.fallbacks = @ + 1])
                ELSE CallFrom([Top EXCEPT !.at = "ma_naf2", !.k = sm, !.km = om,
                                          !.comb = comb],
                              Frame("naf_loop", "", sm),
                              [loc EXCEPT !.self = s2, !.other = o2])
    /\ StepInputs

\* the fallback: the second product, other * other_mul
MulAddSecondProduct ==
    /\ At("ma_fb2")
    /\ CallFrom([Top EXCEPT !.at = "ma_sum", !.doubler = loc.ret],
                fallback_product("other", Top.km, Top.k), loc)
    /\ StepInputs

\* mul_add: self._naf(other_mul)
MulAddSecondNaf ==
    /\ At("ma_naf2")
    /\ CallFrom([Top EXCEPT !.at = "ma_pad", !.tab = loc.ret],
                Frame("naf_loop", "", Top.km), loc)
    /\ StepInputs

\* mul_add: the two digit lists are padded to the same length
MulAddPad ==
    /\ At("ma_pad")
    /\ Continue([Top EXCEPT !.at = "ma_loop", !.tab2 = loc.ret,
                            !.n = Max(Len(Top.tab), Len(loc.ret))], loc)
    /\ StepInputs

\* mul_add: one test of the for loop over the digit pairs and, past the last
\* pair, the return of the accumulated point
MulAddIterate ==
    /\ At("ma_loop")
    /\ IF Top.n > 0
       THEN \E d \in {jdouble(Top.acc[1], Top.acc[2], Top.acc[3],
                               loc.self.curve.p, loc.self.curve.a)} :
            \E t \in {mul_add_term(Digit(Top.tab, Top.n),
                                    Digit(Top.tab2, Top.n),
                                    coords(loc.self), coords(loc.other),
                                    Top.comb)} :
                Continue([Top EXCEPT
                              !.n = @ - 1,
                              !.acc = mul_add_step(d, Digit(Top.tab, Top.n),
                                                   Digit(Top.tab2, Top.n), t,
                                                   loc.self.curve.p,
                                                   loc.self.curve.a)], loc)
       ELSE ReturnValue(JacobiResult(loc.self, Top.acc), loc)
    /\ StepInputs

\* a return statement whose value is the product just computed, or the sum
\* of the two products of the fallback
MulAddLeave ==
    /\ pc # <<>> /\ Top.at \in {"pass", "ma_sum"}
    /\ ReturnValue(IF Top.at = "pass" THEN loc.ret
                   ELSE Add(Top.doubler, loc.ret), loc)
    /\ StepInputs

\* __mul__: the shortcuts, the reduction of the scalar and
\* self._maybe_precompute()
MulEnter ==
    /\ At("mul")
    /\ IF Working(Top.who).Y = 0 \/ Top.k = 0
       THEN ReturnValue(INFINITY, loc)
       ELSE IF Top.k = 1
       THEN ReturnValue(Working(Top.who), loc)
       ELSE CallFrom([Top EXCEPT !.at = "mul_tab",
                                 !.k = reduced_scalar(Working(Top.who), @)],
                     Frame("pre", Top.who, 0), loc)
    /\ StepInputs

\* __mul__: with a table the loop of _mul_precompute starts; without one
\* self.scale() and self._naf(other)
MulBranch ==
    /\ At("mul_tab")
    /\ IF Working(Top.who).pre # <<>>
       THEN Continue([Top EXCEPT !.at = "mul_table", !.n = 1], loc)
       ELSE CallFrom([Top EXCEPT !.at = "mul_naf"],
                     Frame("naf_loop", "", Top.k),
                     Store(loc, Top.who, scale(Working(Top.who))))
    /\ StepInputs

\* __mul__: the for loop over reversed(self._naf(other)) starts
MulDigits ==
    /\ At("mul_naf")
    /\ Continue([Top EXCEPT !.at = "mul_loop", !.tab = loc.ret,
                            !.n = Len(loc.ret)], loc)
    /\ StepInputs

\* __mul__: one test of the for loop over the digits, most significant
\* first, and either one iteration or the return of the product
MulLoopStep ==
    /\ At("mul_loop")
    /\ \E self \in {Working(Top.who)} :
          IF Top.n > 0
          THEN \E d \in {jdouble(Top.acc[1], Top.acc[2], Top.acc[3],
                                  self.curve.p, self.curve.a)} :
                   Continue([Top EXCEPT
                                 !.n = @ - 1,
                                 !.acc = mul_ladder_step(Top.tab[Top.n], d,
                                             self.X, self.Y,
                                             self.curve.p, self.curve.a)],
                            loc)
          ELSE ReturnValue(JacobiResult(self, Top.acc), loc)
    /\ StepInputs

\* _mul_precompute: one test of the for loop over the table and either one
\* iteration or the return of the product
MulTableStep ==
    /\ At("mul_table")
    /\ \E self \in {Working(Top.who)} :
          IF Top.n <= Len(self.pre)
          THEN Continue([Top EXCEPT
                             !.n = @ + 1,
                             !.k = mul_precompute_rest(@),
                             !.acc = mul_precompute_step(self.pre[Top.n],
                                         Top.k, @, self.curve.p,
                                         self.curve.a)], loc)
          ELSE ReturnValue(JacobiResult(self, Top.acc), loc)
    /\ StepInputs

\* _maybe_precompute: the early return, the assertion and the first entry
PrecomputeEnter ==
    /\ At("pre")
    /\ IF ~Working(Top.who).gen \/ Working(Top.who).pre # <<>>
       THEN pc' = Callers /\ loc' = loc /\ UNCHANGED <<op, res>>
       ELSE IF Working(Top.who).order = 0
       THEN RaiseError("AssertionError")
       ELSE \E self \in {Working(Top.who)} :
            \E doubler \in {PointJacobi(self.curve, self.X, self.Y, self.Z,
                                        self.order * 2, FALSE)} :
                Continue([Top EXCEPT !.at = "pre_loop", !.i = 1,
                                     !.n = self.order * 4,
                                     !.doubler = doubler,
                                     !.tab = << <<jx(doubler), jy(doubler)>> >>],
                         loc)
    /\ StepInputs

\* _maybe_precompute: one test of `while i < order' and either one
\* iteration or the assignment of the table and the return
PrecomputeIterate ==
    /\ At("pre_loop")
    /\ IF Top.i < Top.n
       THEN \E d \in {JacobiDouble(Top.doubler)} :
                IF d.kind # "jac" THEN RaiseError("AttributeError")
                ELSE \E next \in {scale(d)} :
                         Continue([Top EXCEPT
                                       !.i = @ * 2, !.doubler = next,
                                       !.tab = Append(@, <<jx(next), jy(next)>>)],
                                  loc)
       ELSE /\ pc' = Callers
            /\ loc' = Store(loc, Top.who,
                            [Working(Top.who) EXCEPT !.pre = Top.tab])
            /\ UNCHANGED <<op, res>>
    /\ StepInputs

\* _naf: one test of `while mult' and either one iteration or the return of
\* the digits
NafIterate ==
    /\ At("naf_loop")
    /\ IF Top.k # 0
       THEN IF (Top.k % 2) = 1
            THEN Continue([Top EXCEPT
                               !.tab = Append(@, naf_digit(Top.k)),
                               !.k = (@ - naf_digit(@)) \div 2], loc)
            ELSE Continue([Top EXCEPT !.tab = Append(@, 0), !.k = @ \div 2],
                          loc)
       ELSE ReturnValue(Top.tab, loc)
    /\ StepInputs

\* Point.__mul__: the shortcuts, (-self) * (-e) for a negative e, and the
\* construction of negative_self
AffineMulEnter ==
    /\ At("amul")
    /\ \E self \in {Top.doubler} :
          IF Top.k = 0 \/ (self.order # 0 /\ (Top.k % self.order) = 0)
          THEN ReturnValue(INFINITY, loc)
          ELSE IF AffineEq(self, INFINITY)
          THEN ReturnValue(INFINITY, loc)
          ELSE IF Top.k < 0
          THEN \E n \in {AffineNeg(self)} :
                   IF IsErr(n) THEN RaiseError(n.err)
                   ELSE CallFrom([Top EXCEPT !.at = "pass"],
                                 [Frame("amul", Top.who, 0 - Top.k)
                                      EXCEPT !.doubler = n], loc)
          ELSE \E negative_self \in {Point(self.curve, self.X, 0 - self.Y,
                                           self.order)} :
                   IF IsErr(negative_self) THEN RaiseError(negative_self.err)
                   ELSE Continue([Top EXCEPT !.at = "amul_bit", !.n = 1,
                                             !.comb = negative_self,
                                             !.acc = self], loc)
    /\ StepInputs

\* leftmost_bit(e3): one test of `while result <= x'
AffineMulBit ==
    /\ At("amul_bit")
    /\ IF Top.n <= 3 * Top.k
       THEN Continue([Top EXCEPT !.n = @ * 2], loc)
       ELSE Continue([Top EXCEPT !.at = "amul_loop",
                                 !.i = (Top.n \div 2) \div 2], loc)
    /\ StepInputs

\* Point.__mul__: one test of `while i > 1' and either one iteration or
\* the return of the product
AffineMulIterate ==
    /\ At("amul_loop")
    /\ IF Top.i > 1
       THEN \E d \in {AffineDouble(Top.acc)} :
            \E r \in {affine_mul_step(d, Top.i, Top.k, 3 * Top.k,
                                       Top.doubler, Top.comb)} :
                IF IsErr(r) THEN RaiseError(r.err)
                ELSE Continue([Top EXCEPT !.i = @ \div 2, !.acc = r], loc)
       ELSE ReturnValue(Top.acc, loc)
    /\ StepInputs

NextMulAdd ==
    \/ MulAddEnter \/ MulAddSecondPrecompute \/ MulAddBranch
    \/ MulAddSecondProduct \/ MulAddSecondNaf \/ MulAddPad \/ MulAddIterate
    \/ MulAddLeave \/ MulEnter \/ MulBranch \/ MulDigits \/ MulLoopStep
    \/ MulTableStep
    \/ PrecomputeEnter \/ PrecomputeIterate \/ NafIterate
    \/ AffineMulEnter \/ AffineMulBit \/ AffineMulIterate

SpecMulAdd == InitMulAdd /\ [][NextMulAdd]_vars

\* the interpreter keeps executing the call: a step that can be taken is
\* taken
SpecMulAddFair == SpecMulAdd /\ WF_vars(NextMulAdd)

\* the call has ended, by a return or by an exception
MulAddEnded == pc = <<>>

\* the steps agree with the call taken as a whole
MulAddStepsAgree ==
    /\ op = "returned" => res = MulAdd(P, k1, Q, k2)
    /\ op = "raised" => IsErr(MulAdd(P, k1, Q, k2))

\* C20: mul_add terminates for all inputs: when P + Q is the identity
\* (P = -Q), or when both points carry precomputation tables, the fallback
\* to two separate multiplies never enters mul_add again, so the recursion
\* is bounded, also when both conditions hold at once.
C20_MulAddTerminates ==
    /\ [](loc.entries <= 1)
    /\ <>MulAddEnded

\* the call has returned through the fallback with P = -Q and a table on
\* both operands
C20_Witness ==
    /\ MulAddEnded /\ op = "returned"
    /\ loc.entries = 1 /\ loc.fallbacks = 1
    /\ loc.self.pre # <<>> /\ loc.other.pre # <<>>
    /\ Add(P, Q) = INFINITY
    /\ k1 # 0 /\ k2 # 0

----------------------------------------------------------------------------
(* The life of a PointJacobi: any sequence of operations on two objects    *)

LifeCurves == {C7, C5even}
MaxLifeScalar == 2
MaxLifeZ == 2
LifeScalars == (0 - 1)..MaxLifeScalar

\* the objects standing for the affine point xy: every representation,
\* order unset or set, generator flag unset or set (the constructor accepts
\* a generator without an order)
LifeObjectsAt(c, xy) ==
    {PointJacobi(c, (xy[1] * z * z) % c.p, (xy[2] * z * z * z) % c.p, z,
                 o, g) :
        z \in 1..MaxLifeZ, o \in {0, RefOrder(c, xy)}, g \in BOOLEAN}

\* the second operands for a first operand at xy: the same point and its
\* negation, scaled, with an order
LifeSeconds(c, xy) ==
    UNION {{o \in LifeObjectsAt(c, uv) : o.Z = 1 /\ o.order # 0} :
               uv \in {t \in PointsOn(c) : t[1] = xy[1]}}

InitLife ==
    /\ \E c \in LifeCurves : \E xy \in PointsOn(c) :
          /\ P \in LifeObjectsAt(c, xy)
          /\ Q \in LifeSeconds(c, xy)
    /\ k1 = 0 /\ k2 = 0
    /\ NoCodec /\ Fresh

LifeInputs == UNCHANGED <<blob, venc, strict, aux, pc, loc>>

\* P.scale()
LifeScale ==
    /\ op' = "scale"
    /\ res' = scale(P)
    /\ P' = scale(P)
    /\ UNCHANGED <<Q, k1, k2>>
    /\ LifeInputs

\* P * k
LifeMul ==
    /\ \E k \in LifeScalars : \E m \in {JacobiMulCall(P, k)} :
          /\ k1' = k
          /\ res' = m.ret
          /\ P' = m.self
    /\ op' = "mul"
    /\ UNCHANGED <<Q, k2>>
    /\ LifeInputs

\* P.mul_add(k, Q, j)
LifeMulAdd ==
    /\ \E k \in LifeScalars : \E j \in LifeScalars :
       \E m \in {MulAddCall(P, k, Q, j)} :
          /\ k1' = k /\ k2' = j
          /\ res' = m.ret
          /\ P' = m.self
          /\ Q' = m.other
    /\ op' = "mul_add"
    /\ LifeInputs

\* P + Q
LifeAdd ==
    /\ op' = "add"
    /\ res' = Add(P, Q)
    /\ UNCHANGED <<P, Q, k1, k2>>
    /\ LifeInputs

\* P.double()
LifeDouble ==
    /\ op' = "double"
    /\ res' = Double(P)
    /\ UNCHANGED <<P, Q, k1, k2>>
    /\ LifeInputs

NextLife == LifeScale \/ LifeMul \/ LifeMulAdd \/ LifeAdd \/ LifeDouble

SpecLife == InitLife /\ [][NextLife]_vars

\* a table only on a generator with an order
TableOnlyOnGenerator(o) ==
    (o.kind = "jac" /\ o.pre # <<>>) => (o.gen /\ o.order # 0)

\* C21: in every reachable state of a PointJacobi a non-empty
\* precomputation table implies generator = true and an order that is set;
\* the table is empty until the first multiplication or mul_add, and once
\* non-empty its content never changes under scale, multiply, mul_add, add
\* and double.
C21_TableLazyThenFixed ==
    /\ [](/\ TableOnlyOnGenerator(P) /\ TableOnlyOnGenerator(Q)
          /\ TableOnlyOnGenerator(res)
          /\ op = "init" => (P.pre = <<>> /\ Q.pre = <<>>))
    /\ [][/\ (P.pre = <<>> /\ P'.pre # <<>>) => op' \in {"mul", "mul_add"}
          /\ (Q.pre = <<>> /\ Q'.pre # <<>>) => op' = "mul_add"
          /\ P.pre # <<>> => P'.pre = P.pre
          /\ Q.pre # <<>> => Q'.pre = Q.pre]_vars

\* P was scaled after its table was built, and Q carries a table too
C21_Witness ==
    /\ op = "scale"
    /\ P.pre # <<>> /\ Q.pre # <<>>
    /\ P.Z = 1

----------------------------------------------------------------------------
(* Addition of equal PointJacobi objects with different stored triples     *)

ReprCurves == {C5, C7}

InitRepr ==
    /\ \E c \in ReprCurves : \E xy \in PointsOn(c) : \E uv \in PointsOn(c) :
          /\ P \in {o \in JacobiObjects(c, xy) : ~o.gen}
          /\ Q \in {o \in JacobiObjects(c, uv) : ~o.gen /\ o.order = 0}
    /\ k1 = 0 /\ k2 = 0
    /\ NoCodec /\ Fresh

\* P1 = -P, which stores -Y, and P2 constructed with the reduced p - Y
Negate ==
    /\ op = "init"
    /\ op' = "neg"
    /\ P' = JacobiNeg(P)
    /\ res' = PointJacobi(P.curve, P.X, (0 - P.Y) % P.curve.p, P.Z,
                          P.order, FALSE)
    /\ UNCHANGED <<Q, k1, k2, blob, venc, strict, aux, pc, loc>>

\* P1 + Q, P2 + Q, Q + P1 and Q + P2
AddBoth ==
    /\ op = "neg"
    /\ op' = "add_both"
    /\ aux' = <<Add(P, Q), Add(res, Q), Add(Q, P), Add(Q, res)>>
    /\ UNCHANGED <<P, Q, k1, k2, blob, venc, strict, res, pc, loc>>

NextRepr == Negate \/ AddBoth

SpecRepr == InitRepr /\ [][NextRepr]_vars

\* C22: PointJacobi addition depends only on the values of its operands:
\* for P1 == P2, P1 produced by negation (stored Y unreduced) and P2
\* holding the reduced p - Y, P1 + Q == P2 + Q and Q + P1 == Q + P2.
C22_AddRespectsEquality ==
    (op = "add_both" /\ PointEq(P, res)) =>
        /\ PointEq(aux[1], aux[2])
        /\ PointEq(aux[3], aux[4])

----------------------------------------------------------------------------
(* The table multiply against the NAF ladder                               *)

C5four == Curve("W", 5, 1, 2, 1)      \* 4 points, (1, 2) has order 4
FastCurves == {C7, C5even, C5four}
MaxFastScalar == 13

\* P a generator with its order, Q the same triple and order without the
\* generator flag
InitFast ==
    /\ \E c \in FastCurves : \E xy \in PointsOn(c) :
          P \in {o \in JacobiObjects(c, xy) : o.gen}
    /\ Q = PointJacobi(P.curve, P.X, P.Y, P.Z, P.order, FALSE)
    /\ k1 \in 0..MaxFastScalar
    /\ k2 = 0 /\ NoCodec /\ Fresh

\* P * k1 for the generator, with the scalars _mul_precompute is left with
\* after each table entry
TableProduct ==
    /\ op = "init"
    /\ op' = "by_table"
    /\ \E m \in {JacobiMulCall(P, k1)} :
          /\ res' = m.ret
          /\ P' = m.self
          /\ aux' = <<mul_precompute_scalars(m.self.pre, 1,
                                              reduced_scalar(P, k1))>>
    /\ UNCHANGED <<Q, k1, k2, blob, venc, strict, pc, loc>>

\* Q * k1 for the twin without the generator flag
LadderProduct ==
    /\ op = "by_table"
    /\ op' = "by_both"
    /\ \E m \in {JacobiMulCall(Q, k1)} :
          /\ aux' = Append(aux, m.ret)
          /\ Q' = m.self
    /\ UNCHANGED <<P, k1, k2, blob, venc, strict, res, pc, loc>>

NextFast == TableProduct \/ LadderProduct

SpecFast == InitFast /\ [][NextFast]_vars

\* C23: for every PointJacobi P with order n set and every scalar k, the
\* table multiply (generator = true) returns a point equal to the one the
\* NAF ladder (generator = false) returns for the same P and k, and for
\* every k in [0, 2n) the table is long enough to consume the scalar.
C23_TableMatchesLadder ==
    op = "by_both" =>
        /\ PointEq(res, aux[2])
        /\ (k1 < 2 * P.order /\ P.pre # <<>>) =>
               aux[1][Len(aux[1])] = 0

----------------------------------------------------------------------------
(* Decoding of compressed encodings                                        *)

CompressedCurves == {C257, C257even}

\* a tag 0x02 or 0x03 followed by any x of the field; only the compressed
\* encoding or every encoding is enabled
InitCompressed ==
    /\ \E c \in CompressedCurves : \E tag \in {2, 3} : \E x \in 0..(c.p - 1) :
          /\ P = PointJacobi(c, 0, 0, 1, 0, FALSE)
          /\ blob = <<tag>> \o number_to_string(x, c.p)
    /\ venc \in {{}, {"compressed"}}
    /\ strict \in BOOLEAN
    /\ Q = INFINITY /\ k1 = 0 /\ k2 = 0
    /\ Fresh

\* from_bytes(curve, blob, strict, venc)
Decompress ==
    /\ op = "init"
    /\ op' = "decompressed"
    /\ \E root \in {0, 1} :
          /\ res' = from_bytes(P.curve, blob, strict, venc, root)
          /\ aux' = <<root>>
    /\ UNCHANGED <<P, Q, k1, k2, blob, venc, strict, pc, loc>>

NextCompressed == Decompress

SpecCompressed == InitCompressed /\ [][NextCompressed]_vars

\* C24: for every decodable compressed encoding (tag 0x02 or 0x03 followed
\* by x with x^3 + a x + b a quadratic residue or zero mod p), the y that
\* from_bytes returns has the parity encoded in the tag and 0 <= y < p.
C24_DecompressedParityAndRange ==
    (op = "decompressed" /\ ~IsErr(res)) =>
        /\ (res.Y % 2) = (IF blob[1] = 2 THEN 0 ELSE 1)
        /\ 0 <= res.Y /\ res.Y < P.curve.p

----------------------------------------------------------------------------
(* Equality and hashing of curve objects                                   *)

\* hash(n) of an integer n of small magnitude: n itself, except that -1 is
\* reserved and hashes to -2
int_hash(n) == IF n = 0 - 1 THEN 0 - 2 ELSE n

\* CurveFp.__hash__ / CurveEdTw.__hash__: the hash of the tuple of the
\* stored p and coefficients, a function of the hashes of its elements that
\* separates the tuples of the model
curve_hash(c) == <<int_hash(c.p), int_hash(c.a), int_hash(c.b)>>

HashPrimes == {3, 5}
MaxCoeff == 4
Coeffs == (0 - MaxCoeff)..MaxCoeff

\* two curve objects of the same class, the cofactor of the second free
InitCurve ==
    /\ \E type \in {"W", "E"} : \E p1 \in HashPrimes : \E p2 \in HashPrimes :
       \E a1 \in Coeffs : \E b1 \in Coeffs :
       \E a2 \in Coeffs : \E b2 \in Coeffs : \E h \in {1, 2} :
          aux = <<Curve(type, p1, a1, b1, 1), Curve(type, p2, a2, b2, h)>>
    /\ P = INFINITY /\ Q = INFINITY /\ k1 = 0 /\ k2 = 0
    /\ NoCodec
    /\ op = "init" /\ res = INFINITY /\ pc = <<>> /\ loc = <<>>

\* c1 == c2, hash(c1) and hash(c2)
CompareCurves ==
    /\ op = "init"
    /\ op' = "compared"
    /\ loc' = [eq |-> CurveEq(aux[1], aux[2]),
               h1 |-> curve_hash(aux[1]), h2 |-> curve_hash(aux[2])]
    /\ UNCHANGED <<P, Q, k1, k2, blob, venc, strict, res, aux, pc>>

NextCurve == CompareCurves

SpecCurve == InitCurve /\ [][NextCurve]_vars

\* C25: curve equality and hashing are consistent: two CurveFp (or two
\* CurveEdTw) objects compare equal exactly when p is equal and the
\* coefficients are congruent mod p, whatever the cofactor, and two equal
\* curves have equal hash values.
C25_EqualCurvesHashEqual ==
    op = "compared" =>
        /\ loc.eq <=> (/\ aux[1].p = aux[2].p
                       /\ ((aux[1].a - aux[2].a) % aux[1].p) = 0
                       /\ ((aux[1].b - aux[2].b) % aux[1].p) = 0)
        /\ loc.eq => loc.h1 = loc.h2

====
